---- MODULE Spec2Model ----
(***************************************************************************)
(* The simulation worker of src/msd_server/MSDWorker.py: one process that  *)
(* reads lines from stdin, owns one MSD lattice and writes lines to stdout *)
(* and diagnostics to stderr.                                              *)
(*                                                                         *)
(* The worker blocks only in input().  Every action below is "read one     *)
(* line at the position pc, then run the code up to the next input() or to *)
(* the end of the process".                                                *)
(*                                                                         *)
(* Numbers are small integer codes.  A parameter value is a code 0..MaxVal,*)
(* 0 standing for the value the lattice is constructed with.  A Vector is  *)
(* coded by one integer as well; what matters to the worker is whether a   *)
(* value IS a Vector (see encodeMSD, sim), and that is modelled by the key *)
(* it is stored under.  Of the 35 lattice coefficients, kT, B and SL are   *)
(* kept (the two of the fast path and one other), of the node coefficients *)
(* Sm and Fm, of the edge coefficients Jm and bm: the code treats all the  *)
(* coefficients of one record alike (dict overlay).                        *)
(***************************************************************************)
EXTENDS Integers, Sequences, FiniteSets, TLC

VARIABLES
    pc,        \* where the worker is blocked in input(), or "terminated"
    msd,       \* the MSD object (lattice, parameters, molecule, seed)
    simCount,  \* local of case RUN
    freq,      \* local of case RUN
    dkT,       \* local of case RUN
    dB,        \* local of case RUN: [given |-> is a Vector from the body, v |-> code]
    out,       \* the lines the last step printed to stdout
    err,       \* the diagnostic the last step printed to stderr ("none" if none)
    status,    \* exit status of the process, -1 while it runs
    at,        \* the position at which the last line was read
    line,      \* the last line read
    nSnap,     \* snapshots printed by the RUN in progress
    nSteps,    \* metropolis steps executed by the RUN in progress
    ctor,      \* a call of MSD(...) on its own: [a |-> arguments, g |-> the
               \* arguments as resolved, called |-> the call has returned or raised]
    cur,       \* a cursor of a collection on its own: the collection's length,
               \* the cursor, the calls made on it and what they gave
    molecule,  \* a Molecule on its own: its nodes, edges and leads, the buffer
               \* it was serialized into and what was read from it
    lat,       \* the sites of a lattice on their own: the dimensions, each
               \* site's spin and flux, the accessor calls made and what they gave
    held       \* what a caller of the lattice holds: the Parameters record and
               \* the Molecule it got from or handed to the lattice

vars == <<pc, msd, simCount, freq, dkT, dB, out, err, status, at, line, nSnap, nSteps,
          ctor, cur, molecule, lat, held>>

(***************************************************************************)
(* Bounds of the model.                                                    *)
(***************************************************************************)
MaxVal == 1     \* parameter values in SET/config bodies are codes 1..MaxVal
MaxSeed == 1    \* seeds are 0..MaxSeed
MaxN == 4       \* step counts of RUN bodies are 0..MaxN
MaxF == 3       \* checkpoint intervals of RUN bodies are -1, 0, 1, MaxF, or omitted
MaxDim == 2     \* width, height, depth of a call of MSD(...) are 1..MaxDim
MaxPos == 1     \* boundaries given to a call of MSD(...) are 0..MaxPos
MaxLen == 2     \* lengths and node counts given to a call of MSD(...) are 1..MaxLen

(***************************************************************************)
(* Keys of the JSON objects (MSDWorker.py:31-91).                          *)
(***************************************************************************)
MSD_INIT_ARGS == {"width", "height", "depth", "molType", "molPosL", "molPosR",
                  "topL", "bottomL", "frontR", "backR"}
CONFIG_PARAMS == {"seed", "randomize", "flippingAlgorithm", "reseed"}
MSD_PARAMS == {"kT", "B", "SL"}
MOL_NODE_PARAMS == {"Sm", "Fm"}
MOL_EDGE_PARAMS == {"Jm", "bm"}
SIM_ARGS == {"simCount", "freq", "dkT", "dB"}
ALL_TYPES == MSD_INIT_ARGS \cup CONFIG_PARAMS \cup MSD_PARAMS \cup MOL_NODE_PARAMS
             \cup MOL_EDGE_PARAMS \cup SIM_ARGS

\* every key a line of the model may carry; "bogus" is in no table
Keys == ALL_TYPES \cup {"bogus"}


(***************************************************************************)
(* Lines of input.  A line is end-of-input, a text that is no JSON, a JSON *)
(* object or a JSON list of names.  A JSON object is its key set and a     *)
(* value per key (0 for the keys it lacks).                                *)
(***************************************************************************)
NoVal == [k \in Keys |-> 0]

EOFLine == [t |-> "eof", s |-> "", keys |-> {}, val |-> NoVal, names |-> {}]
Text(s) == [t |-> "text", s |-> s, keys |-> {}, val |-> NoVal, names |-> {}]
Obj(pairs) ==
    [t |-> "obj", s |-> "", keys |-> {q[1] : q \in pairs},
     val |-> [k \in Keys |-> IF \E q \in pairs : q[1] = k
                             THEN (CHOOSE q \in pairs : q[1] = k)[2] ELSE 0],
     names |-> {}]
List(names) == [t |-> "list", s |-> "", keys |-> {}, val |-> NoVal, names |-> names]

Texts == {"EXIT", "exit", "SET", "set", "RUN", "GET", "RESET", "CANCEL", "go"}

\* codes of the molType and flippingAlgorithm tags of a body
LINEAR == 1
CIRCULAR == 2
UP_DOWN_MODEL == 1
CONTINUOUS_SPIN_MODEL == 2
UnknownTag == CIRCULAR + 1

Dims == {<<"width", 3>>, <<"height", 1>>, <<"depth", 1>>}
ConfigExtras ==
    {{}}
    \cup {{<<"molType", c>>} : c \in {LINEAR, CIRCULAR, UnknownTag}}
    \cup {{<<"flippingAlgorithm", c>>} : c \in {UP_DOWN_MODEL, UnknownTag}}
    \cup {{<<"molType", LINEAR>>, <<"molPosL", 0>>, <<"molPosR", 1>>}}
    \cup {{<<"molPosL", 1>>}}
    \cup {{<<"seed", s>>} : s \in 0..MaxSeed}
    \cup {{<<"randomize", 1>>}}
    \cup {{<<"seed", s>>, <<"randomize", 1>>} : s \in 0..MaxSeed}
    \cup {{<<"kT", 1>>}}
    \cup {{<<"Sm", 1>>, <<"B", 1>>}}
ConfigLines ==
    {Obj(Dims \cup x) : x \in ConfigExtras}
    \cup {Obj({<<"width", 3>>, <<"height", 1>>})}

\* values of the lattice coefficients range over 1..MaxVal; the molecule
\* coefficients are set to the one value 1
SetLines ==
    {Obj({})}
    \cup {Obj({<<k, v>>}) : k \in {"kT", "B", "SL", "bogus"}, v \in 1..MaxVal}
    \cup {Obj({<<k, 1>>}) : k \in {"Sm", "Jm"}}
    \cup {Obj({<<"kT", v>>, <<"B", w>>}) : v, w \in 1..MaxVal}
    \cup {Obj({<<"kT", v>>, <<"bogus", 1>>}) : v \in 1..MaxVal}
    \cup {Obj({<<"SL", v>>, <<"Sm", 1>>}) : v \in 1..MaxVal}
    \cup {Obj({<<"Sm", 1>>, <<"Jm", 1>>})}

RunLines ==
    {Obj({<<"simCount", n>>}) : n \in 0..MaxN}
    \cup {Obj({<<"simCount", n>>, <<"freq", f>>}) : n \in 0..MaxN, f \in {-1, 0, 1, MaxF}}
    \cup {Obj({<<"simCount", MaxN>>, <<"dkT", d>>}) : d \in 0..1}
    \cup {Obj({<<"simCount", MaxN>>, <<"dB", 0>>})}
    \cup {Obj({<<"simCount", MaxN>>, <<"freq", 1>>, <<"dkT", 1>>, <<"dB", 1>>})}
    \cup {Obj({<<"freq", 1>>})}

S_RESULTS == "results"
S_PARAMETERS == "parameters"
S_SEED == "seed"
S_MSD == "msd"
S_MOL == "mol"
S_ALL == {S_RESULTS, S_PARAMETERS, S_SEED, S_MSD, S_MOL}

GetLines ==
    {List({}), List({S_SEED}), List({S_SEED, "bogus"}), List({"bogus"}),
     List({S_PARAMETERS}), List({S_MOL}), List({S_MSD, S_RESULTS})}

ResetLines ==
    {Obj({})}
    \cup {Obj({<<"seed", s>>}) : s \in 0..MaxSeed}
    \cup {Obj({<<"randomize", b>>}) : b \in 0..1}
    \cup {Obj({<<"reseed", b>>}) : b \in 0..1}
    \cup {Obj({<<"seed", s>>, <<"randomize", 1>>, <<"reseed", 1>>}) : s \in 0..MaxSeed}
    \cup {Obj({<<"randomize", 1>>, <<"reseed", 0>>})}

\* The lines tried at each position: end-of-input, texts, the bodies meant
\* for the position and bodies meant for another one.
ConfigInputs == {EOFLine, Text("go"), List({})} \cup ConfigLines
CommandInputs == {EOFLine, Obj({})} \cup {Text(s) : s \in Texts}
SetInputs ==
    {EOFLine, Text("EXIT"), List({S_SEED}), Obj({<<"simCount", 1>>, <<"dkT", 1>>}),
     Obj({<<"molType", UnknownTag>>})}
    \cup SetLines
RunInputs == {EOFLine, Text("CANCEL"), List({}), Obj({<<"kT", 1>>})} \cup RunLines
ControlInputs == {EOFLine, Obj({})} \cup {Text(s) : s \in Texts}
GetInputs == {EOFLine, Text("go"), Obj({<<"seed", 1>>})} \cup GetLines
ResetInputs == {EOFLine, Text("go"), List({}), Obj({<<"bogus", 1>>})} \cup ResetLines

(***************************************************************************)
(* str.upper() on the texts of the model.                                  *)
(***************************************************************************)
upper(s) ==
    CASE s = "exit" -> "EXIT"
      [] s = "set" -> "SET"
      [] s = "go" -> "GO"
      [] OTHER -> s

\* input().upper() of a line that is not end-of-input: the text of a JSON
\* line is no keyword in either case
upperLine(ln) == IF ln.t = "text" THEN upper(ln.s) ELSE "<json>"


(***************************************************************************)
(* MSD.__init__ (lib/python/MSD.py:647-743).  The arguments are a record   *)
(* [has, v]: the set of arguments that are not None and their values.      *)
(* The result adds raised: an exception left the constructor.              *)
(***************************************************************************)
CtorArgs == {"width", "height", "depth", "molProto", "molType", "molPosL", "molPosR",
             "topL", "bottomL", "frontR", "backR", "molPos", "molLen", "heightL", "depthR"}

ArgSet(g, k, x) == [g EXCEPT !.has = @ \cup {k}, !.v[k] = x]
ArgRaise(g) == [g EXCEPT !.raised = TRUE]

\* IntHalf, were it math.floor(a / 2)
IntHalf_floor(a) == a \div 2

\* int(a / 2): true division, then truncation toward zero
IntHalf(a) == IF a >= 0 THEN a \div 2 ELSE -((-a) \div 2)

\* MSD.py:655-660, molProto's value being its nodeCount
CtorMolProto(g) ==
    IF g.raised \/ "molProto" \notin g.has THEN g
    ELSE IF "molLen" \notin g.has THEN ArgSet(g, "molLen", g.v["molProto"])
    ELSE IF g.v["molProto"] # g.v["molLen"] THEN ArgRaise(g)
    ELSE g

\* MSD.py:662-671; line 670 compares molPos with itself
CtorMolPos(g) ==
    IF g.raised \/ "molPos" \notin g.has THEN g
    ELSE LET g1 == IF "molPosL" \notin g.has THEN ArgSet(g, "molPosL", g.v["molPos"])
                   ELSE IF g.v["molPosL"] # g.v["molPos"] THEN ArgRaise(g)
                   ELSE g
         IN  IF g1.raised THEN g1
             ELSE IF "molPosR" \notin g1.has THEN ArgSet(g1, "molPosR", g1.v["molPos"])
             ELSE IF g1.v["molPos"] # g1.v["molPos"] THEN ArgRaise(g1)
             ELSE g1

\* CtorAxis, were the missing boundary derived as lo + len
CtorAxis_offByOne(g, len, lo, hi, extent) ==
    IF g.raised \/ len \notin g.has THEN g
    ELSE IF lo \in g.has /\ hi \in g.has
         THEN IF g.v[len] # g.v[hi] - g.v[lo] + 1 THEN ArgRaise(g) ELSE g
    ELSE IF lo \in g.has THEN ArgSet(g, hi, g.v[lo] + g.v[len])
    ELSE IF hi \in g.has THEN ArgSet(g, lo, g.v[hi] - g.v[len])
    ELSE LET l == IntHalf(g.v[extent] - g.v[len])
         IN  ArgSet(ArgSet(g, lo, l), hi, l + g.v[len])

\* CtorAxis, were a length given with both boundaries not compared with them
CtorAxis_noCheck(g, len, lo, hi, extent) ==
    IF g.raised \/ len \notin g.has THEN g
    ELSE IF lo \in g.has /\ hi \in g.has THEN g
    ELSE IF lo \in g.has THEN ArgSet(g, hi, g.v[lo] + (g.v[len] - 1))
    ELSE IF hi \in g.has THEN ArgSet(g, lo, g.v[hi] - (g.v[len] - 1))
    ELSE LET l == IntHalf(g.v[extent] - g.v[len])
         IN  ArgSet(ArgSet(g, lo, l), hi, l + (g.v[len] - 1))

\* one axis-pair: MSD.py:673-685 (molLen), 687-699 (heightL), 701-713 (depthR)
CtorAxis(g, len, lo, hi, extent) ==
    IF g.raised \/ len \notin g.has THEN g
    ELSE IF lo \in g.has /\ hi \in g.has
         THEN IF g.v[len] # g.v[hi] - g.v[lo] + 1 THEN ArgRaise(g) ELSE g
    ELSE IF lo \in g.has THEN ArgSet(g, hi, g.v[lo] + (g.v[len] - 1))
    ELSE IF hi \in g.has THEN ArgSet(g, lo, g.v[hi] - (g.v[len] - 1))
    ELSE LET l == IntHalf(g.v[extent] - g.v[len])
         IN  ArgSet(ArgSet(g, lo, l), hi, l + (g.v[len] - 1))

\* MSD.py:715-716: the chained comparison
\*   (molPosL is None) and (None != molPosR) and (molPosR is None)
CtorBothOrNeither(g) ==
    IF g.raised THEN g
    ELSE IF "molPosL" \notin g.has /\ "molPosR" \in g.has /\ "molPosR" \notin g.has
         THEN ArgRaise(g)
    ELSE g

\* CtorDefaults, were the molecule to default to the first column and the
\* leads to the full extent counted from 1
CtorDefaults_fromOne(g) ==
    IF g.raised THEN g
    ELSE LET g1 == IF "molPosL" \notin g.has
                   THEN ArgSet(ArgSet(g, "molPosL", 0), "molPosR", 0)
                   ELSE g
             g2 == IF "topL" \notin g1.has THEN ArgSet(g1, "topL", 1) ELSE g1
             g3 == IF "bottomL" \notin g2.has
                   THEN ArgSet(g2, "bottomL", g2.v["height"]) ELSE g2
             g4 == IF "frontR" \notin g3.has THEN ArgSet(g3, "frontR", 1) ELSE g3
         IN  IF "backR" \notin g4.has THEN ArgSet(g4, "backR", g4.v["depth"]) ELSE g4

\* MSD.py:718-729
CtorDefaults(g) ==
    IF g.raised THEN g
    ELSE LET g1 == IF "molPosL" \notin g.has
                   THEN ArgSet(ArgSet(g, "molPosL", IntHalf(g.v["width"] - 1)),
                               "molPosR", IntHalf(g.v["width"] - 1))
                   ELSE g
             g2 == IF "topL" \notin g1.has THEN ArgSet(g1, "topL", 0) ELSE g1
             g3 == IF "bottomL" \notin g2.has
                   THEN ArgSet(g2, "bottomL", g2.v["height"] - 1) ELSE g2
             g4 == IF "frontR" \notin g3.has THEN ArgSet(g3, "frontR", 0) ELSE g3
         IN  IF "backR" \notin g4.has THEN ArgSet(g4, "backR", g4.v["depth"] - 1) ELSE g4

\* CtorCreate, were a graph to take precedence over a tag given with it
CtorCreate_graphFirst(g) ==
    IF g.raised THEN g
    ELSE LET passed == IF "molProto" \in g.has
                       THEN {"molPosL", "topL", "bottomL", "frontR", "backR"}
                       ELSE {"molPosL", "molPosR", "topL", "bottomL", "frontR", "backR"}
         IN  IF passed \subseteq g.has THEN g ELSE ArgRaise(g)

\* CtorCreate, were ctypes to take None for a c_uint
CtorCreate_lenient(g) ==
    IF g.raised THEN g
    ELSE IF "molProto" \in g.has /\ "molType" \in g.has THEN ArgRaise(g)
    ELSE g

\* MSD.py:731-739: the arguments handed to createMSD_p / _f / _i are c_uint;
\* ctypes raises ArgumentError for one that is still None
CtorCreate(g) ==
    IF g.raised THEN g
    ELSE IF "molProto" \in g.has /\ "molType" \in g.has THEN ArgRaise(g)
    ELSE LET passed == IF "molProto" \in g.has
                       THEN {"molPosL", "topL", "bottomL", "frontR", "backR"}
                       ELSE {"molPosL", "molPosR", "topL", "bottomL", "frontR", "backR"}
         IN  IF passed \subseteq g.has THEN g ELSE ArgRaise(g)

\* the arguments of a call: f maps each argument to <<>> (None) or <<value>>
MkArgs(f) ==
    [has |-> {k \in CtorArgs : f[k] # <<>>},
     v |-> [k \in CtorArgs |-> IF f[k] = <<>> THEN 0 ELSE f[k][1]]]

Opt(S) == {<<>>} \cup {<<x>> : x \in S}
One(x) == {<<x>>}
NoArg == {<<>>}

\* calls that place the molecule along the width
MolAxisCalls ==
    {MkArgs(f) : f \in
       [width : Opt(1..MaxDim) \ NoArg, height : One(1), depth : One(1),
        molProto : Opt(1..MaxLen), molType : Opt({LINEAR, CIRCULAR}),
        molPosL : Opt(0..MaxPos), molPosR : Opt(0..MaxPos),
        topL : NoArg, bottomL : NoArg, frontR : NoArg, backR : NoArg,
        molPos : Opt(0..MaxPos), molLen : Opt(1..MaxLen),
        heightL : NoArg, depthR : NoArg]}

\* calls that place the left lead along the height, the right lead along the
\* depth, with and without a molecule graph and a molecule-type tag
LeadAxisCalls ==
    {MkArgs(f) : f \in
       [width : One(1), height : Opt(1..MaxDim) \ NoArg, depth : One(1),
        molProto : Opt({1}), molType : NoArg,
        molPosL : NoArg, molPosR : NoArg,
        topL : Opt(0..MaxPos), bottomL : Opt(0..MaxPos), frontR : NoArg, backR : NoArg,
        molPos : NoArg, molLen : NoArg,
        heightL : Opt(1..MaxLen), depthR : NoArg]}
    \cup
    {MkArgs(f) : f \in
       [width : One(1), height : One(1), depth : Opt(1..MaxDim) \ NoArg,
        molProto : NoArg, molType : Opt({LINEAR}),
        molPosL : NoArg, molPosR : NoArg,
        topL : NoArg, bottomL : NoArg, frontR : Opt(0..MaxPos), backR : Opt(0..MaxPos),
        molPos : NoArg, molLen : NoArg,
        heightL : NoArg, depthR : Opt(1..MaxLen)]}

\* the calls of the constructor test (MSD-python-test.py:45-46), the second
\* with a graph of 3 nodes, and the first with a graph added to its tag
TestCalls ==
    {MkArgs(f) : f \in
       [width : One(13), height : One(10), depth : One(10),
        molProto : Opt({3}), molType : Opt({CIRCULAR}),
        molPosL : One(5), molPosR : Opt({7}),
        topL : One(3), bottomL : One(7), frontR : One(3), backR : One(7),
        molPos : NoArg, molLen : NoArg, heightL : NoArg, depthR : NoArg]}

CtorCalls == MolAxisCalls \cup LeadAxisCalls \cup TestCalls

MSD__init__(a) ==
    LET g0 == [has |-> a.has, v |-> a.v,
               raised |-> ~({"width", "height", "depth"} \subseteq a.has)]
        g1 == CtorMolPos(CtorMolProto(g0))
        g2 == CtorAxis(g1, "molLen", "molPosL", "molPosR", "width")
        g3 == CtorAxis(g2, "heightL", "topL", "bottomL", "height")
        g4 == CtorAxis(g3, "depthR", "frontR", "backR", "depth")
    IN  CtorCreate(CtorDefaults(CtorBothOrNeither(g4)))


(***************************************************************************)
(* The engine behind msd_clib (MSD-export.dll).  Its code is not part of   *)
(* the sources at hand; these operators are what the specification says   *)
(* the engine does with a call of the Python binding.                      *)
(***************************************************************************)
ParamDefault == [kT |-> 0, B |-> 0, SL |-> 0]
NodeDefault == [Sm |-> 0, Fm |-> 0]
EdgeDefault == [Jm |-> 0, bm |-> 0]

NoMSD == [live |-> FALSE, p |-> ParamDefault, nodes |-> <<>>, edges |-> <<>>,
          seed |-> 0, sites |-> "init", n |-> 0, algo |-> 0, calls |-> <<>>]

\* createMSD_p / createMSD_f / createMSD_i: a lattice with the engine's
\* default parameters and a molecule spanning molPosL..molPosR
createMSD(g, s0) ==
    LET len == IF "molProto" \in g.has THEN g.v["molProto"]
               ELSE g.v["molPosR"] - g.v["molPosL"] + 1
        nn == IF len > 0 THEN len ELSE 0
        ne == IF nn <= 1 THEN 0
              ELSE IF "molType" \in g.has /\ g.v["molType"] = CIRCULAR /\ nn > 2 THEN nn
              ELSE nn - 1
    IN  [live |-> TRUE, p |-> ParamDefault,
         nodes |-> [i \in 1..nn |-> NodeDefault],
         edges |-> [i \in 1..ne |-> EdgeDefault],
         seed |-> s0, sites |-> "init",
         n |-> g.v["width"] * g.v["height"] * g.v["depth"], algo |-> 0,
         calls |-> <<>>]

setFlippingAlgorithm(m, algo) == [m EXCEPT !.algo = algo]
getParameters(m) == m.p
setParametersE(m, p) == [m EXCEPT !.p = p]
set_kT(m, kT) == [m EXCEPT !.p.kT = kT]
setB(m, B) == [m EXCEPT !.p.B = B]
getMolProto(m) == [nodes |-> m.nodes, edges |-> m.edges]
setMolProto(m, mol) == [m EXCEPT !.nodes = mol.nodes, !.edges = mol.edges]
setSeed(m, seed) == [m EXCEPT !.seed = seed]
\* s is the seed the engine draws when it reseeds; calls is the record of
\* the randomize and reinitialize calls the engine got in the command at hand
randomize(m, reseed, s) ==
    [m EXCEPT !.sites = "rand", !.seed = IF reseed THEN s ELSE @,
              !.calls = Append(@, [fn |-> "randomize", reseed |-> reseed])]
reinitialize(m, reseed, s) ==
    [m EXCEPT !.sites = "init", !.seed = IF reseed THEN s ELSE @,
              !.calls = Append(@, [fn |-> "reinitialize", reseed |-> reseed])]
metropolis(m, N) == IF N > 0 THEN [m EXCEPT !.sites = "evolved"] ELSE m

(***************************************************************************)
(* The functions of MSDWorker.py.                                          *)
(***************************************************************************)
\* bool(v) of a JSON number
Bool(v) == IF v # 0 THEN 1 ELSE 0

\* readJSON (MSDWorker.py:93-101) with the converters of lines 12-28:
\* input() raises EOFError at end-of-input, json.loads raises on a text that
\* is no JSON, a list has no items(), molType() and flippingAlgorithm() raise
\* KeyError on a tag they do not know
readJSON(ln) ==
    LET kw == [keys |-> ln.keys,
               val |-> [k \in Keys |->
                          IF k \in {"randomize", "reseed"} THEN Bool(ln.val[k])
                          ELSE ln.val[k]]]
    IN  IF ln.t = "eof" THEN [exc |-> "EOFError", kw |-> kw]
        ELSE IF ln.t # "obj" THEN [exc |-> "Error", kw |-> kw]
        ELSE IF "molType" \in ln.keys /\ ln.val["molType"] \notin {LINEAR, CIRCULAR}
             THEN [exc |-> "Error", kw |-> kw]
        ELSE IF "flippingAlgorithm" \in ln.keys
                /\ ln.val["flippingAlgorithm"] \notin {UP_DOWN_MODEL, CONTINUOUS_SPIN_MODEL}
             THEN [exc |-> "Error", kw |-> kw]
        ELSE [exc |-> "none", kw |-> kw]

\* {**rec.__dict__, **kw_x}: the fields of rec, those named in ks replaced
Overlay(rec, ks, val) == [f \in DOMAIN rec |-> IF f \in ks THEN val[f] ELSE rec[f]]

\* setParameters, were it to build the Parameters from the defaults
setParameters_fromDefaults(m, kw) ==
    setParametersE(m, Overlay(ParamDefault, kw.keys \cap MSD_PARAMS, kw.val))

\* setParameters, were it to build each node's and edge's record from the
\* defaults and the body
setParameters_molFromDefaults(m, kw) ==
    LET kw_p == kw.keys \cap MSD_PARAMS
        m1 == IF kw_p # {}
              THEN setParametersE(m, Overlay(getParameters(m), kw_p, kw.val))
              ELSE m
        molProto == getMolProto(m1)
    IN  setMolProto(m1,
          [nodes |-> [i \in DOMAIN molProto.nodes |->
                        Overlay(NodeDefault, kw.keys \cap MOL_NODE_PARAMS, kw.val)],
           edges |-> [i \in DOMAIN molProto.edges |->
                        Overlay(EdgeDefault, kw.keys \cap MOL_EDGE_PARAMS, kw.val)]])

\* setParameters, were a key of no table to void the body
setParameters_strictKeys(m, kw) ==
    IF kw.keys \subseteq MSD_PARAMS \cup MOL_NODE_PARAMS \cup MOL_EDGE_PARAMS
    THEN setMolProto(
           setParametersE(m, Overlay(getParameters(m), kw.keys \cap MSD_PARAMS, kw.val)),
           [nodes |-> [i \in DOMAIN m.nodes |->
                         Overlay(m.nodes[i], kw.keys \cap MOL_NODE_PARAMS, kw.val)],
            edges |-> [i \in DOMAIN m.edges |->
                         Overlay(m.edges[i], kw.keys \cap MOL_EDGE_PARAMS, kw.val)]])
    ELSE m

\* setParameters, were the temperature of a body skipped when it gives a
\* field as well (elif in the place of the second if)
setParameters_fieldOrTemperature(m, kw) ==
    IF kw.keys \subseteq {"kT", "B"}
    THEN IF "B" \in kw.keys THEN setB(m, kw.val["B"])
         ELSE IF "kT" \in kw.keys THEN set_kT(m, kw.val["kT"])
         ELSE m
    ELSE LET kw_p == kw.keys \cap MSD_PARAMS
             kw_node_p == kw.keys \cap MOL_NODE_PARAMS
             kw_edge_p == kw.keys \cap MOL_EDGE_PARAMS
             m1 == IF kw_p # {}
                   THEN setParametersE(m, Overlay(getParameters(m), kw_p, kw.val))
                   ELSE m
             molProto == getMolProto(m1)
             nodes == IF kw_node_p # {}
                      THEN [i \in DOMAIN molProto.nodes |->
                              Overlay(molProto.nodes[i], kw_node_p, kw.val)]
                      ELSE molProto.nodes
             edges == IF kw_edge_p # {}
                      THEN [i \in DOMAIN molProto.edges |->
                              Overlay(molProto.edges[i], kw_edge_p, kw.val)]
                      ELSE molProto.edges
         IN  IF kw_node_p # {} \/ kw_edge_p # {}
             THEN setMolProto(m1, [nodes |-> nodes, edges |-> edges])
             ELSE m1

\* setParameters (MSDWorker.py:103-142)
setParameters(m, kw) ==
    IF kw.keys \subseteq {"kT", "B"}
    THEN LET m1 == IF "B" \in kw.keys THEN setB(m, kw.val["B"]) ELSE m
         IN  IF "kT" \in kw.keys THEN set_kT(m1, kw.val["kT"]) ELSE m1
    ELSE LET kw_p == kw.keys \cap MSD_PARAMS
             kw_node_p == kw.keys \cap MOL_NODE_PARAMS
             kw_edge_p == kw.keys \cap MOL_EDGE_PARAMS
             m1 == IF kw_p # {}
                   THEN setParametersE(m, Overlay(getParameters(m), kw_p, kw.val))
                   ELSE m
             molProto == getMolProto(m1)
             nodes == IF kw_node_p # {}
                      THEN [i \in DOMAIN molProto.nodes |->
                              Overlay(molProto.nodes[i], kw_node_p, kw.val)]
                      ELSE molProto.nodes
             edges == IF kw_edge_p # {}
                      THEN [i \in DOMAIN molProto.edges |->
                              Overlay(molProto.edges[i], kw_edge_p, kw.val)]
                      ELSE molProto.edges
         IN  IF kw_node_p # {} \/ kw_edge_p # {}
             THEN setMolProto(m1, [nodes |-> nodes, edges |-> edges])
             ELSE m1

\* maybeSeed (MSDWorker.py:144-151)
maybeSeed(m, kw) ==
    IF "seed" \in kw.keys THEN [m |-> setSeed(m, kw.val["seed"]), r |-> TRUE]
    ELSE [m |-> m, r |-> FALSE]

\* maybeRandomize, were the presence of the key to decide
maybeRandomize_keyPresent(m, kw, reseed, s) ==
    IF "randomize" \in kw.keys
    THEN [m |-> randomize(m, reseed, s), r |-> TRUE]
    ELSE [m |-> m, r |-> FALSE]

\* maybeRandomize (MSDWorker.py:153-160)
maybeRandomize(m, kw, reseed, s) ==
    IF "randomize" \in kw.keys /\ kw.val["randomize"] # 0
    THEN [m |-> randomize(m, reseed, s), r |-> TRUE]
    ELSE [m |-> m, r |-> FALSE]

\* reset, were reseed the flag of the body whether or not a seed is given
reset_flagOnly(m, kw, s) ==
    LET ms == maybeSeed(m, kw)
        reseed == IF "reseed" \in kw.keys THEN kw.val["reseed"] # 0 ELSE TRUE
        mr == maybeRandomize(ms.m, kw, reseed, s)
    IN  IF ~mr.r THEN reinitialize(mr.m, reseed, s) ELSE mr.m

\* reset (MSDWorker.py:162-170)
reset(m, kw, s) ==
    LET ms == maybeSeed(m, kw)
        reseed == ~ms.r /\ (IF "reseed" \in kw.keys THEN kw.val["reseed"] # 0 ELSE TRUE)
        mr == maybeRandomize(ms.m, kw, reseed, s)
    IN  IF ~mr.r THEN reinitialize(mr.m, reseed, s) ELSE mr.m

\* iter(Vector): Vector.__iter__ returns the tuple (x, y, z) (MSD.py:59), and
\* a tuple is no iterator, so iter() raises TypeError
VectorIter == "TypeError"

\* encodeMSD (MSDWorker.py:181-190), the default= of json.dumps, on a value
\* of a type json does not know: list(obj) for a Vector
encodeMSD(type) ==
    CASE type = "Vector" -> VectorIter
      [] type \in {"c_ulonglong", "c_double"} -> "ok"
      [] OTHER -> "TypeError"

\* the types json.dumps hands to encodeMSD for one group of the state: every
\* Results, Parameters, NodeParameters and EdgeParameters record has Vector
\* fields (MSD.py:117-147, 523-559), every site has a Vector spin
GroupTypes(m, g) ==
    CASE g \in {S_RESULTS, S_PARAMETERS} -> {"Vector"}
      [] g = S_MSD -> IF m.n > 0 THEN {"Vector"} ELSE {}
      [] g = S_MOL -> IF Len(m.nodes) > 0 \/ Len(m.edges) > 0 THEN {"Vector"} ELSE {}
      [] OTHER -> {}

NoSnap == [groups |-> {}, parameters |-> ParamDefault, seed |-> 0, sites |-> "init",
           nodes |-> <<>>, edges |-> <<>>]

\* state (MSDWorker.py:178-229): the groups of what that are known, encoded
state(m, what) ==
    LET groups == what \cap S_ALL
    IN  IF \E g \in groups : \E ty \in GroupTypes(m, g) : encodeMSD(ty) # "ok"
        THEN [exc |-> "Error", snap |-> NoSnap]
        ELSE [exc |-> "none",
              snap |-> [groups |-> groups,
                        parameters |-> IF S_PARAMETERS \in groups
                                       THEN getParameters(m) ELSE ParamDefault,
                        seed |-> IF S_SEED \in groups THEN m.seed ELSE 0,
                        sites |-> IF S_MSD \in groups THEN m.sites ELSE "init",
                        nodes |-> IF S_MOL \in groups THEN getMolProto(m).nodes ELSE <<>>,
                        edges |-> IF S_MOL \in groups THEN getMolProto(m).edges ELSE <<>>]]

\* sim (MSDWorker.py:231-246).  dB is [given, v]: given is FALSE for the
\* float default 0. and TRUE for a Vector of the body.
\*   dkT == 0. and dB == 0.   Vector.__eq__ (MSD.py:78) takes byref(0.): TypeError
\*   p.B += dB                Vector.__iadd__ (MSD.py:94) returns None, or
\*                            takes byref(0.): TypeError either way
\* steps is the number of metropolis steps done before the call returned or raised
sim(m, n, dkT_, dB_) ==
    IF dkT_ = 0
    THEN IF dB_.given THEN [exc |-> "Error", m |-> m, steps |-> 0]
         ELSE [exc |-> "none", m |-> metropolis(m, n), steps |-> n]
    ELSE IF n > 0 THEN [exc |-> "Error", m |-> metropolis(m, 1), steps |-> 1]
         ELSE [exc |-> "none", m |-> m, steps |-> 0]



(***************************************************************************)
(* The cursors of lib/python/MSD.py: Molecule._NodeIterable and _Node      *)
(* (lines 150-255), Molecule._EdgeIterable and _Edge (257-363), and MSD    *)
(* with MSD._Iterator (570-642, 944-948).  The three are the same code on  *)
(* three engine iterators, so one set of operators stands for all; kind    *)
(* tells which collection a cursor belongs to.  A cursor is the record     *)
(* [pos, i, dir]: the engine iterator's position, _i (metaIndex) and the   *)
(* function _next holds.  A call gives [exc, ret, self]: the exception     *)
(* that left it, the value it returned and the cursor it was called on     *)
(* afterwards.                                                             *)
(***************************************************************************)
MaxSize == 2

CursorKinds == {"nodes", "edges", "sites"}

\* None, where a cursor is expected
PyNone == [pos |-> -1, i |-> -1, dir |-> "None"]

Cursor(pos, i, dir) == [pos |-> pos, i |-> i, dir |-> dir]

Raise(e, c) == [exc |-> e, ret |-> PyNone, self |-> c]
Return(v, c) == [exc |-> "none", ret |-> v, self |-> c]

\* the engine's iterators: a position 0..L in a collection of L elements
createBeginNodeIter(L) == 0
createEndNodeIter(L) == L
next_n(p) == p + 1
prev_n(p) == p - 1
add_n(p, offset) == p + offset
sub_n(p, offset) == p - offset
eq_n(p, q) == p = q

\* boundsCheck, were max excluded
boundsCheck_exclusive(index, max, min) ==
    IF index < min \/ index >= max THEN "IndexError" ELSE "none"

\* MSD.py:43-45
boundsCheck(index, max, min) ==
    IF index < min \/ index > max THEN "IndexError" ELSE "none"

\* MSD.py:167-170
NodeIterable_begin(L) == Cursor(createBeginNodeIter(L), 0, "FORWARD")
NodeIterable_end(L) == Cursor(createEndNodeIter(L), L, "FORWARD")
NodeIterable__iter__(L) == NodeIterable_begin(L)
NodeIterable__reversed__(L) == Cursor(createEndNodeIter(L), L, "BACKWARD")

\* MSD.py:218
Node_clone(c) == Cursor(c.pos, c.i, c.dir)

\* Node_next, were it to move before it looks for the end
Node_next_moveFirst(c, L) ==
    LET moved == [c EXCEPT !.pos = next_n(@), !.i = @ + 1]
    IN  IF eq_n(c.pos, createEndNodeIter(L)) THEN Raise("StopIteration", moved)
        ELSE Return(Node_clone(c), moved)

\* Node_next, were it to copy the cursor after moving it
Node_next_moveThenCopy(c, L) ==
    IF eq_n(c.pos, createEndNodeIter(L)) THEN Raise("StopIteration", c)
    ELSE LET moved == [c EXCEPT !.pos = next_n(@), !.i = @ + 1]
         IN  Return(Node_clone(moved), moved)

\* MSD.py:188-195
Node_next(c, L) ==
    IF eq_n(c.pos, createEndNodeIter(L)) THEN Raise("StopIteration", c)
    ELSE Return(Node_clone(c), [c EXCEPT !.pos = next_n(@), !.i = @ + 1])

\* MSD.py:197-203
Node_prev(c, L) ==
    IF eq_n(c.pos, createBeginNodeIter(L)) THEN Raise("StopIteration", c)
    ELSE LET moved == [c EXCEPT !.pos = prev_n(@), !.i = @ - 1]
         IN  Return(Node_clone(moved), moved)

\* MSD.py:233: self._next(self), _next being next (FORWARD) or prev (BACKWARD)
Node__next__(c, L) == IF c.dir = "FORWARD" THEN Node_next(c, L) ELSE Node_prev(c, L)

\* MSD.py:226: other._node of None is an AttributeError
Node__eq__(c, other) ==
    IF c = PyNone \/ other = PyNone THEN [exc |-> "AttributeError", v |-> FALSE]
    ELSE [exc |-> "none", v |-> eq_n(c.pos, other.pos)]

\* MSD.py:235-239: the method ends without a return statement
Node__iadd__(c, offset, L) ==
    LET newPos == c.i + offset
    IN  IF boundsCheck(newPos, L, 0) # "none" THEN Raise("IndexError", c)
        ELSE Return(PyNone, [c EXCEPT !.pos = add_n(@, offset), !.i = newPos])

\* MSD.py:241-245
Node__isub__(c, offset, L) ==
    LET newPos == c.i - offset
    IN  IF boundsCheck(newPos, L, 0) # "none" THEN Raise("IndexError", c)
        ELSE Return(PyNone, [c EXCEPT !.pos = sub_n(@, offset), !.i = newPos])

\* MSD.py:247-250: copy += offset binds copy to what __iadd__ returned
Node__add__(c, offset, L) ==
    IF c = PyNone THEN Raise("TypeError", c)
    ELSE LET copy == Node_clone(c)
             r == Node__iadd__(copy, offset, L)
         IN  IF r.exc # "none" THEN Raise(r.exc, c) ELSE Return(r.ret, c)

\* MSD.py:252-255
Node__sub__(c, offset, L) ==
    IF c = PyNone THEN Raise("TypeError", c)
    ELSE LET copy == Node_clone(c)
             r == Node__isub__(copy, offset, L)
         IN  IF r.exc # "none" THEN Raise(r.exc, c) ELSE Return(r.ret, c)

\* MSD.py:173-178: index % len(self) is never negative and raises for len 0
NodeIterable__getitem__(index0, L) ==
    IF L = 0 THEN Raise("ZeroDivisionError", PyNone)
    ELSE LET index == index0 % L
         IN  IF index >= 0 THEN Node__add__(NodeIterable_begin(L), index, L)
             ELSE Node__sub__(NodeIterable_end(L), -index, L)

\* no call made yet on cursor c of a collection of L elements
CurOf(kind, L, c) ==
    [kind |-> kind, L |-> L, c |-> c, was |-> c,
     op |-> "none", arg |-> 0, exc |-> "none", ret |-> PyNone,
     op2 |-> "none", arg2 |-> 0, exc2 |-> "none", ret2 |-> PyNone, eq |-> "none",
     yielded |-> <<>>, heap |-> <<>>, snap |-> PyNone, snapWas |-> PyNone,
     failed |-> FALSE]

NoCur == CurOf("none", 0, PyNone)

\* the cursors a program can hold: begin moved p times by next(), or
\* reversed(collection) moved L - p times by its __next__
Cursors ==
    UNION {{CurOf(kind, L, Cursor(p, p, d)) :
              kind \in CursorKinds, p \in 0..L, d \in {"FORWARD", "BACKWARD"}} :
           L \in 0..MaxSize}

\* iter(collection) at the head of a for loop
Iterations ==
    {CurOf(kind, L, NodeIterable__iter__(L)) : kind \in CursorKinds, L \in 0..MaxSize}

\* iter(c) at the head of a for statement over a cursor c, as Python
\* resolves it: the classes _Node (MSD.py:180-255), _Edge (287-363) and
\* _Iterator (570-642) define __next__ but neither __iter__ nor
\* __getitem__, so iter(c) raises TypeError
Node__iter__(c) == Raise("TypeError", c)

\* reversed(collection) as a program has it before its first use
Reversals ==
    {CurOf(kind, L, NodeIterable__reversed__(L)) : kind \in CursorKinds, L \in 0..MaxSize}

\* Cursors as objects.  heap[h] is the position of the engine's iterator h;
\* a cursor object is [node, i, dir], node being the iterator it holds.
\* Iterators 1 and 2 are the collection's own _begin and _end.
HeapOf(L) == <<createBeginNodeIter(L), createEndNodeIter(L)>>

\* a new iterator at the position of iterator h
copyNodeIter(heap, h) == [heap |-> Append(heap, heap[h]), h |-> Len(heap) + 1]

\* Node.__init__, were it to keep the iterator it is given
Node__init__keepsStart(heap, start, i, dir) ==
    [heap |-> heap, c |-> [node |-> start, i |-> i, dir |-> dir]]

\* MSD.py:209-214: the cursor holds a copy of the iterator it is given
Node__init__(heap, start, i, dir) ==
    LET n == copyNodeIter(heap, start)
    IN  [heap |-> n.heap, c |-> [node |-> n.h, i |-> i, dir |-> dir]]

\* MSD.py:218 on objects: the clone is made of self._node and self._i
Node_cloneObject(heap, c) == Node__init__(heap, c.node, c.i, c.dir)

\* the position, metaIndex and direction of cursor object c
ValueOf(heap, c) == Cursor(heap[c.node], c.i, c.dir)

\* MSD.py:216: __del__ destroys the iterator of a cursor no name refers to;
\* what stays are the collection's two, the cursor's and the snapshot's
Collect(heap, c, snap) ==
    LET hs == {1, 2, c.node} \cup (IF snap = PyNone THEN {} ELSE {snap.node})
        rank(h) == Cardinality({g \in hs : g <= h})
        kth(k) == CHOOSE h \in hs : rank(h) = k
    IN  [heap |-> [k \in 1..Cardinality(hs) |-> heap[kth(k)]],
         c |-> [c EXCEPT !.node = rank(@)],
         snap |-> IF snap = PyNone THEN PyNone ELSE [snap EXCEPT !.node = rank(@)]]

\* collection.begin, collection.end (MSD.py:167-168) or reversed(collection)
\* (MSD.py:170) as an object, no call made on it yet
WalkOf(kind, L, which) ==
    LET n == CASE which = "begin" -> Node__init__(HeapOf(L), 1, 0, "FORWARD")
               [] which = "end" -> Node__init__(HeapOf(L), 2, L, "FORWARD")
               [] which = "reversed" -> Node__init__(HeapOf(L), 2, L, "BACKWARD")
    IN  [CurOf(kind, L, n.c) EXCEPT !.heap = n.heap]

Walks ==
    {WalkOf(kind, L, which) :
       kind \in CursorKinds, L \in 0..MaxSize, which \in {"begin", "end", "reversed"}}


(***************************************************************************)
(* Molecule (lib/python/MSD.py:112-507): a graph under construction.  A    *)
(* Molecule is the record [nodes, conn, leads, loops]: the NodeParameters  *)
(* of each node, the edges in the order connectNodes made them (edge       *)
(* index k is conn[k + 1]), the lead indices, and how many entries the     *)
(* engine's traversal holds for an edge from a node to itself.             *)
(***************************************************************************)
MaxNodes == 2
MaxEdges == 2

\* the engine: createMolProto_e / createMolProto_n, createNode_d,
\* connectNodes_d
createMolProto_n(nodeCount, loops) ==
    [nodes |-> [i \in 1..nodeCount |-> NodeDefault], conn |-> <<>>,
     leads |-> <<0, 0>>, loops |-> loops]
createNode_d(m) == [m EXCEPT !.nodes = Append(@, NodeDefault)]
connectNodes_d(m, nodeA, nodeB) ==
    [m EXCEPT !.conn = Append(@, [a |-> nodeA, b |-> nodeB, p |-> EdgeDefault])]

\* the engine's createEdges: the directed entries of the graph, node by
\* node, each edge once from either of its ends
createEdges(m) ==
    LET N == Len(m.nodes)
        E == Len(m.conn)
        Entry(k) == LET v == (k - 1) \div (2 * E)
                        e == (((k - 1) % (2 * E)) \div 2) + 1
                        d == ((k - 1) % 2) + 1
                    IN  [index |-> e - 1,
                         src |-> v,
                         dest |-> IF d = 1 THEN m.conn[e].b ELSE m.conn[e].a,
                         there |-> \/ d = 1 /\ m.conn[e].a = v
                                   \/ /\ d = 2 /\ m.conn[e].b = v
                                      /\ (m.conn[e].a # v \/ m.loops = 2)]
        Is(x) == x.there
    IN  SelectSeq([k \in 1..(N * E * 2) |-> Entry(k)], Is)

\* the engine's size_e and edgeIndex_i, src_e, dest_e of the entry at a
\* position of the traversal
size_e(edges) == Len(edges)
edgeIndex_i(edges, p) == edges[p + 1].index

\* MSD.py:371-394, 405-415, 419-434: the Python methods hand over to the
\* engine
Molecule__init__(nodeCount, loops) == createMolProto_n(nodeCount, loops)
Molecule_createNode(m) == createNode_d(m)
Molecule_connectNodes(m, nodeA, nodeB) == connectNodes_d(m, nodeA, nodeB)

\* MSD.py:465
Molecule_edges(m) == createEdges(m)

\* for x in collection, from iterator it on: the cursors yielded
RECURSIVE ForLoop(_, _, _)
ForLoop(it, L, yielded) ==
    LET r == Node__next__(it, L)
    IN  IF r.exc # "none" THEN yielded
        ELSE ForLoop(r.self, L, Append(yielded, r.ret))

\* the loop of edgesUnique, were visited never added to
RECURSIVE edgesUniqueLoop_noAdd(_, _, _, _, _)
edgesUniqueLoop_noAdd(edges, loop, j, visited, unique) ==
    IF j > Len(loop) THEN unique
    ELSE LET edge == loop[j]
             edgeIndex == edgeIndex_i(edges, edge.pos)
         IN  IF edgeIndex \notin visited
             THEN edgesUniqueLoop_noAdd(edges, loop, j + 1, visited,
                                        Append(unique, edge))
             ELSE edgesUniqueLoop_noAdd(edges, loop, j + 1, visited, unique)

\* MSD.py:479-484: the body of the loop for the j-th cursor yielded on
RECURSIVE edgesUniqueLoop(_, _, _, _, _)
edgesUniqueLoop(edges, loop, j, visited, unique) ==
    IF j > Len(loop) THEN unique
    ELSE LET edge == loop[j]
             edgeIndex == edgeIndex_i(edges, edge.pos)
         IN  IF edgeIndex \notin visited
             THEN edgesUniqueLoop(edges, loop, j + 1, visited \cup {edgeIndex},
                                  Append(unique, edge))
             ELSE edgesUniqueLoop(edges, loop, j + 1, visited, unique)

\* MSD.py:468-485
Molecule_edgesUnique(m) ==
    LET edges == Molecule_edges(m)
        L == size_e(edges)
    IN  edgesUniqueLoop(edges, ForLoop(NodeIterable__iter__(L), L, <<>>), 1, {}, <<>>)

\* the engine's buffer layout: header, node count, the parameters of each
\* node, edge count, the parameters of each edge, the two lead indices
HEADER == <<77, 83, 68>>
HEADER_SIZE == Len(HEADER)

RECURSIVE Flatten(_)
Flatten(ss) == IF ss = <<>> THEN <<>> ELSE Head(ss) \o Flatten(Tail(ss))

serializationSize(m) == HEADER_SIZE + 1 + 2 * Len(m.nodes) + 1 + 2 * Len(m.conn) + 2

serialize(m) ==
    HEADER \o <<Len(m.nodes)>>
           \o Flatten([i \in 1..Len(m.nodes) |-> <<m.nodes[i].Sm, m.nodes[i].Fm>>])
           \o <<Len(m.conn)>>
           \o Flatten([i \in 1..Len(m.conn) |-> <<m.conn[i].p.Jm, m.conn[i].p.bm>>])
           \o m.leads

\* the graph read from a buffer into m; the buffer holds no source and no
\* destination, ends is what the engine gives each edge for them
deserialize(m, buffer, ends) ==
    LET n == buffer[HEADER_SIZE + 1]
        nodesAt == HEADER_SIZE + 1
        e == buffer[nodesAt + 2 * n + 1]
        edgesAt == nodesAt + 2 * n + 1
        leadsAt == edgesAt + 2 * e
    IN  [m EXCEPT
           !.nodes = [i \in 1..n |-> [Sm |-> buffer[nodesAt + 2 * i - 1],
                                      Fm |-> buffer[nodesAt + 2 * i]]],
           !.conn = [i \in 1..e |-> [a |-> ends[i][1], b |-> ends[i][2],
                                     p |-> [Jm |-> buffer[edgesAt + 2 * i - 1],
                                            bm |-> buffer[edgesAt + 2 * i]]]],
           !.leads = <<buffer[leadsAt + 1], buffer[leadsAt + 2]>>]

\* MSD.py:398
Molecule_serializationSize(m) == serializationSize(m)

\* MSD.py:396: the engine fills the buffer handed over, which the caller
\* made of Molecule_serializationSize(m) bytes
Molecule_serialize(m) == serialize(m)

\* Molecule_deserialize, were the buffer not handed to the engine
Molecule_deserialize_notRead(m, buffer, ends) == m

\* MSD.py:397
Molecule_deserialize(m, buffer, ends) == deserialize(m, buffer, ends)

\* a Molecule at hand, the createNode and connectNodes calls made on it, the
\* property read from it last and its value, the buffer it was serialized
\* into and the Molecule read back from the buffer
MolOf(m) ==
    [m |-> m, created |-> 0, connected |-> 0,
     read |-> "none", edges |-> <<>>, unique |-> <<>>,
     buffer |-> <<>>, copy |-> createMolProto_n(0, m.loops)]

\* graphs to serialize: nodes of any Sm, no edge or one edge of any Jm
\* between any two nodes, the leads at the first node or the first and last
SerialGraphs ==
    UNION {
      {[nodes |-> [i \in 1..n |-> [Sm |-> sm[i], Fm |-> 0]],
        conn |-> conn, leads |-> <<0, r>>, loops |-> 2] :
          sm \in [1..n -> 0..MaxVal],
          conn \in {<<>>} \cup {<<[a |-> a, b |-> b, p |-> [Jm |-> j, bm |-> 0]]>> :
                                   a \in 0..(n - 1), b \in 0..(n - 1), j \in 0..MaxVal},
          r \in {0, IF n > 0 THEN n - 1 ELSE 0}} :
      n \in 0..MaxNodes}

NoMol == MolOf(createMolProto_n(0, 1))

(***************************************************************************)
(* The site accessors of MSD (lib/python/MSD.py:786-872).  An argument is  *)
(* [t, v]: None, an int or a Vector (v its value).  A call gives [exc, l,  *)
(* via, ret]: the exception that left it, the sites afterwards, the engine *)
(* function it reached ("i" by index, "v" by coordinates) and its value.   *)
(***************************************************************************)
PNone == [t |-> "None", v |-> 0]
PInt(n) == [t |-> "int", v |-> n]
PVec(v) == [t |-> "Vector", v |-> v]

SiteDefault == [spin |-> 0, flux |-> 0]

\* the engine: a site's linear index, and the accessors by index (_i) and
\* by coordinates (_v); the local moment is spin + flux
Index(dim, x, y, z) == x + dim[1] * (y + dim[2] * z)
getSpin_i(l, a) == l.site[a].spin
getSpin_v(l, x, y, z) == l.site[Index(l.dim, x, y, z)].spin
getFlux_i(l, a) == l.site[a].flux
getFlux_v(l, x, y, z) == l.site[Index(l.dim, x, y, z)].flux
getLocalM_i(l, a) == l.site[a].spin + l.site[a].flux
getLocalM_v(l, x, y, z) == getLocalM_i(l, Index(l.dim, x, y, z))
setSpin_i(l, a, spin) == [l EXCEPT !.site[a].spin = spin]
setSpin_v(l, x, y, z, spin) == setSpin_i(l, Index(l.dim, x, y, z), spin)
setFlux_i(l, a, flux) == [l EXCEPT !.site[a].flux = flux]
setFlux_v(l, x, y, z, flux) == setFlux_i(l, Index(l.dim, x, y, z), flux)
setLocalM_i(l, a, spin, flux) == [l EXCEPT !.site[a] = [spin |-> spin, flux |-> flux]]
setLocalM_v(l, x, y, z, spin, flux) == setLocalM_i(l, Index(l.dim, x, y, z), spin, flux)

Raised(e, l) == [exc |-> e, l |-> l, via |-> "none", ret |-> <<>>]
Wrote(l, via) == [exc |-> "none", l |-> l, via |-> via, ret |-> <<>>]
Got(l, via, v) == [exc |-> "none", l |-> l, via |-> via, ret |-> v]

\* ctypes takes an int for a c_uint argument (MSD.py:975-986)
Uints(args) == \A j \in 1..Len(args) : args[j].t = "int"

\* MSD.py:786-789, 791-794, 796-799: one of getSpin, getFlux, getLocalM
MSD_get(fn, l, x, y, z) ==
    IF y.t = "None"
    THEN IF ~Uints(<<x>>) THEN Raised("ArgumentError", l)
         ELSE Got(l, "i", CASE fn = "getSpin" -> getSpin_i(l, x.v)
                            [] fn = "getFlux" -> getFlux_i(l, x.v)
                            [] fn = "getLocalM" -> getLocalM_i(l, x.v))
    ELSE IF ~Uints(<<x, y, z>>) THEN Raised("ArgumentError", l)
         ELSE Got(l, "v", CASE fn = "getSpin" -> getSpin_v(l, x.v, y.v, z.v)
                            [] fn = "getFlux" -> getFlux_v(l, x.v, y.v, z.v)
                            [] fn = "getLocalM" -> getLocalM_v(l, x.v, y.v, z.v))

MSD_getSpin(l, x, y, z) == MSD_get("getSpin", l, x, y, z)
MSD_getFlux(l, x, y, z) == MSD_get("getFlux", l, x, y, z)
MSD_getLocalM(l, x, y, z) == MSD_get("getLocalM", l, x, y, z)

\* MSD_setSpin, were the call form told by y
MSD_setSpin_formByY(l, x, y, z, spin0) ==
    IF spin0.t = "None" /\ y.t = "None" THEN Raised("ArgumentError", l)
    ELSE LET spin == IF spin0.t = "None" THEN y ELSE spin0
         IN  IF spin.t # "Vector" THEN Raised("TypeError", l)
             ELSE IF y.t = "None"
                  THEN IF ~Uints(<<x>>) THEN Raised("ArgumentError", l)
                       ELSE Wrote(setSpin_i(l, x.v, spin.v), "i")
             ELSE IF ~Uints(<<x, y, z>>) THEN Raised("ArgumentError", l)
                  ELSE Wrote(setSpin_v(l, x.v, y.v, z.v, spin.v), "v")

\* MSD.py:801-817; byref (line 813) takes a ctypes instance only
MSD_setSpin(l, x, y, z, spin0) ==
    IF spin0.t = "None" /\ y.t = "None" THEN Raised("ArgumentError", l)
    ELSE LET spin == IF spin0.t = "None" THEN y ELSE spin0
         IN  IF spin.t # "Vector" THEN Raised("TypeError", l)
             ELSE IF z.t = "None"
                  THEN IF ~Uints(<<x>>) THEN Raised("ArgumentError", l)
                       ELSE Wrote(setSpin_i(l, x.v, spin.v), "i")
             ELSE IF ~Uints(<<x, y, z>>) THEN Raised("ArgumentError", l)
                  ELSE Wrote(setSpin_v(l, x.v, y.v, z.v, spin.v), "v")

\* MSD.py:819-835
MSD_setFlux(l, x, y, z, flux0) ==
    IF flux0.t = "None" /\ y.t = "None" THEN Raised("ArgumentError", l)
    ELSE LET flux == IF flux0.t = "None" THEN y ELSE flux0
         IN  IF flux.t # "Vector" THEN Raised("TypeError", l)
             ELSE IF z.t = "None"
                  THEN IF ~Uints(<<x>>) THEN Raised("ArgumentError", l)
                       ELSE Wrote(setFlux_i(l, x.v, flux.v), "i")
             ELSE IF ~Uints(<<x, y, z>>) THEN Raised("ArgumentError", l)
                  ELSE Wrote(setFlux_v(l, x.v, y.v, z.v, flux.v), "v")

\* MSD.py:837-861
MSD_setLocalM(l, x, y, z, spin0, flux0) ==
    LET mode_i == y.t = "None" \/ spin0.t = "None"
    IN  IF spin0.t = "None" /\ y.t = "None" THEN Raised("ArgumentError", l)
        ELSE IF flux0.t = "None" /\ z.t = "None" THEN Raised("ArgumentError", l)
        ELSE LET spin == IF spin0.t = "None" THEN y ELSE spin0
                 flux == IF flux0.t = "None" THEN z ELSE flux0
             IN  IF spin.t # "Vector" \/ flux.t # "Vector" THEN Raised("TypeError", l)
                 ELSE IF mode_i
                      THEN IF ~Uints(<<x>>) THEN Raised("ArgumentError", l)
                           ELSE Wrote(setLocalM_i(l, x.v, spin.v, flux.v), "i")
                 ELSE IF ~Uints(<<x, y, z>>) THEN Raised("ArgumentError", l)
                      ELSE Wrote(setLocalM_v(l, x.v, y.v, z.v, spin.v, flux.v), "v")

\* MSD.py:863-866: idx is a tuple of coordinates (an Iterable) or an int
MSD__getitem__(l, idx) ==
    LET s == IF Len(idx) = 3 THEN MSD_getSpin(l, idx[1], idx[2], idx[3])
             ELSE MSD_getSpin(l, idx[1], PNone, PNone)
        f == IF Len(idx) = 3 THEN MSD_getFlux(l, idx[1], idx[2], idx[3])
             ELSE MSD_getFlux(l, idx[1], PNone, PNone)
    IN  IF s.exc # "none" THEN s
        ELSE IF f.exc # "none" THEN f
        ELSE Got(l, s.via, <<s.ret, f.ret>>)

\* MSD.py:868-872
MSD__setitem__(l, idx, localM) ==
    IF Len(idx) = 3
    THEN MSD_setLocalM(l, idx[1], idx[2], idx[3], localM[1], localM[2])
    ELSE MSD_setLocalM(l, idx[1], PNone, PNone, localM[1], localM[2])

\* the sites of a lattice as constructed, no accessor called yet
NoCall == [fn |-> "none", form |-> "none", shape |-> "none", a |-> 0,
           xyz |-> <<0, 0, 0>>, spin |-> 0, flux |-> 0,
           exc |-> "none", via |-> "none", ret |-> <<>>]

LatOf(dim) ==
    [dim |-> dim,
     site |-> [a \in 0..(dim[1] * dim[2] * dim[3] - 1) |-> SiteDefault],
     w |-> NoCall, r |-> NoCall]

NoLat == LatOf(<<0, 0, 0>>)

\* lattices of every width and height and of depth 1 and 2
SiteLattices ==
    {LatOf(<<w, h, d>>) : w \in 1..MaxDim, h \in 1..MaxDim, d \in 1..2}

(***************************************************************************)
(* What a caller holds of a lattice (lib/python/MSD.py:763-778).  A held   *)
(* object is [has, alias, v]: the caller has it, its storage is the        *)
(* lattice's own (a write through it is a write to the lattice) and its    *)
(* value.  A held Molecule also tells whether it was handed to             *)
(* setMolProto.                                                            *)
(***************************************************************************)
NoHeld ==
    [p |-> [has |-> FALSE, alias |-> FALSE, v |-> ParamDefault],
     g |-> [has |-> FALSE, alias |-> FALSE, passed |-> FALSE,
            v |-> [nodes |-> <<>>, edges |-> <<>>]],
     op |-> "none"]

\* MSD_getParameters, were the engine's record handed out by reference
MSD_getParameters_byReference(m) == [has |-> TRUE, alias |-> TRUE, v |-> getParameters(m)]

\* MSD.py:763 with the signature of line 964: the restype is the Parameters
\* structure itself, so ctypes builds a Parameters object of its own from
\* the value returned
MSD_getParameters(m) == [has |-> TRUE, alias |-> FALSE, v |-> getParameters(m)]

\* MSD.py:764 with the signature of line 965: the record is passed by value
MSD_setParameters(m, p) == setParametersE(m, p.v)

\* MSD.py:771-774
MSD_set_kT(m, kT) == set_kT(m, kT)
MSD_setB(m, B) == setB(m, B)

\* MSD.py:776: a Molecule around the graph the engine hands out, which is a
\* copy of the embedded one
MSD_getMolProto(m) ==
    [has |-> TRUE, alias |-> FALSE, passed |-> FALSE, v |-> getMolProto(m)]

\* MSD.py:777: the engine embeds a copy of the graph handed over
MSD_setMolProto(m, mol) == setMolProto(m, mol.v)

(***************************************************************************)
(* main (MSDWorker.py:248-328).                                            *)
(***************************************************************************)
Out(t) == [t |-> t, snap |-> NoSnap]
Snapshot(snap) == [t |-> "STATE", snap |-> snap]

NoDB == [given |-> FALSE, v |-> 0]

NoArgs == [has |-> {}, v |-> [k \in CtorArgs |-> 0]]
NoCtor == [a |-> NoArgs, g |-> MSD__init__(NoArgs), called |-> FALSE]

Init ==
    /\ pc = "config"
    /\ msd = NoMSD
    /\ simCount = 0 /\ freq = 0 /\ dkT = 0 /\ dB = NoDB
    /\ out = <<>> /\ err = "none" /\ status = -1
    /\ at = "start" /\ line = Text("")
    /\ nSnap = 0 /\ nSteps = 0
    /\ ctor = NoCtor
    /\ cur = NoCur /\ molecule = NoMol /\ lat = NoLat
    /\ held = NoHeld

\* what every step records of the line it read
Read(ln) ==
    /\ at' = pc
    /\ line' = ln
    /\ UNCHANGED <<ctor, cur, molecule, lat, held>>

NoRun == simCount' = 0 /\ freq' = 0 /\ dkT' = 0 /\ dB' = NoDB /\ nSnap' = 0 /\ nSteps' = 0

\* Shutdown, were the except clause to fall through to print("GOODBYE")
Shutdown_goodbye ==
    /\ pc' = "terminated" /\ status' = 0 /\ err' = "none"
    /\ out' = <<Out("GOODBYE")>>
    /\ msd' = NoMSD

\* Shutdown, were EOFError to reach the bare except clause
Shutdown_fatal ==
    /\ pc' = "terminated" /\ status' = 1 /\ err' = "traceback" /\ out' = <<>>
    /\ msd' = NoMSD

\* except EOFError: pass (MSDWorker.py:320-321): the process ends with status 0
\* and its objects are released
Shutdown ==
    /\ pc' = "terminated" /\ status' = 0 /\ err' = "none" /\ out' = <<>>
    /\ msd' = NoMSD

\* Fatal, were the bare except to report the error and go on with the
\* command loop
Fatal_resumes ==
    /\ pc' = "command" /\ err' = "traceback" /\ out' = <<>>
    /\ UNCHANGED <<msd, status>>

\* except: print(traceback.format_exc(), file=sys.stderr); exit(1)
\* (MSDWorker.py:323-325)
Fatal ==
    /\ pc' = "terminated" /\ status' = 1 /\ err' = "traceback" /\ out' = <<>>
    /\ msd' = NoMSD

\* MSDWorker.py:251-262
ReadConfig(ln) ==
    /\ pc = "config"
    /\ Read(ln)
    /\ NoRun
    /\ LET r == readJSON(ln)
           kw == r.kw
           g == MSD__init__([has |-> kw.keys \cap MSD_INIT_ARGS,
                             v |-> [k \in CtorArgs |-> IF k \in Keys THEN kw.val[k] ELSE 0]])
       IN  IF r.exc = "EOFError" THEN Shutdown
           ELSE IF r.exc # "none" \/ g.raised THEN Fatal
           ELSE \E s0 \in 0..MaxSeed :
                  LET m0 == createMSD(g, s0)
                      m1 == IF "flippingAlgorithm" \in kw.keys
                            THEN setFlippingAlgorithm(m0, kw.val["flippingAlgorithm"])
                            ELSE m0
                      m2 == setParameters(m1, kw)
                      m3 == maybeSeed(m2, kw).m
                  IN  /\ msd' = maybeRandomize(m3, kw, FALSE, s0).m
                      /\ out' = <<Out("READY")>>
                      /\ err' = "none"
                      /\ pc' = "command"
                      /\ UNCHANGED status

\* the position a command keyword leads to (MSDWorker.py:271, 276, 303, 310)
BodyOf(cmd) ==
    CASE cmd = "SET" -> "set_body"
      [] cmd = "RUN" -> "run_body"
      [] cmd = "GET" -> "get_sel"
      [] cmd = "RESET" -> "reset_body"

\* Unrecognized, were the default case to raise
Unrecognized_fatal == Fatal

\* case cmd (MSDWorker.py:314-315): a line on stderr, and the loop goes on
Unrecognized ==
    /\ err' = "unrecognized"
    /\ out' = <<>>
    /\ pc' = "command"
    /\ UNCHANGED <<msd, status>>

\* MSDWorker.py:266-269, 314-318: the match on input().upper()
ReadCommand(ln) ==
    /\ pc = "command"
    /\ Read(ln)
    /\ NoRun
    /\ IF ln.t = "eof" THEN Shutdown
       ELSE LET cmd == upperLine(ln)
            IN  IF cmd = "EXIT"
                THEN /\ out' = <<Out("GOODBYE")>>
                     /\ err' = "none"
                     /\ pc' = "terminated" /\ status' = 0
                     /\ msd' = NoMSD
                ELSE IF cmd \in {"SET", "RUN", "GET", "RESET"}
                THEN /\ pc' = BodyOf(cmd)
                     /\ out' = <<>> /\ err' = "none"
                     /\ UNCHANGED <<msd, status>>
                ELSE Unrecognized

\* case "SET" (MSDWorker.py:271-274)
ReadSetBody(ln) ==
    /\ pc = "set_body"
    /\ Read(ln)
    /\ NoRun
    /\ LET r == readJSON(ln)
       IN  IF r.exc = "EOFError" THEN Shutdown
           ELSE IF r.exc # "none" THEN Fatal
           ELSE /\ msd' = setParameters(msd, r.kw)
                /\ out' = <<Out("DONE")>>
                /\ err' = "none"
                /\ pc' = "command"
                /\ UNCHANGED status

\* case "RUN" up to its first input() (MSDWorker.py:282-291)
ReadRunBody(ln) ==
    /\ pc = "run_body"
    /\ Read(ln)
    /\ LET r == readJSON(ln)
           kw == r.kw
           f0 == IF "freq" \in kw.keys THEN kw.val["freq"] ELSE 0
           st == state(msd, S_ALL)
       IN  IF r.exc = "EOFError" THEN Shutdown /\ NoRun
           ELSE IF r.exc # "none" \/ "simCount" \notin kw.keys \/ st.exc # "none"
                THEN Fatal /\ NoRun
           ELSE /\ simCount' = kw.val["simCount"]
                /\ freq' = IF f0 <= 0 THEN kw.val["simCount"] ELSE f0
                /\ dkT' = IF "dkT" \in kw.keys THEN kw.val["dkT"] ELSE 0
                /\ dB' = IF "dB" \in kw.keys THEN [given |-> TRUE, v |-> kw.val["dB"]]
                         ELSE NoDB
                /\ out' = <<Snapshot(st.snap)>>
                /\ nSnap' = 1 /\ nSteps' = 0
                /\ err' = "none"
                /\ pc' = "run_ctl"
                /\ UNCHANGED <<msd, status>>

\* case "RUN" from an input() of line 291 or 296 to the next input() or to
\* DONE (MSDWorker.py:291-301)
ReadRunControl(ln) ==
    /\ pc = "run_ctl"
    /\ Read(ln)
    /\ UNCHANGED <<freq, dkT, dB>>
    /\ IF ln.t = "eof" THEN Shutdown /\ UNCHANGED <<simCount, nSnap, nSteps>>
       ELSE LET cont == upperLine(ln) # "CANCEL"
                n == IF simCount >= freq THEN freq ELSE simCount
                r == sim(msd, n, dkT, dB)
                st == state(r.m, S_ALL)
            IN  IF cont /\ (simCount >= freq \/ simCount > 0)
                THEN IF r.exc # "none" \/ st.exc # "none"
                     THEN /\ Fatal
                          /\ nSteps' = nSteps + r.steps
                          /\ UNCHANGED <<simCount, nSnap>>
                     ELSE /\ msd' = r.m
                          /\ nSteps' = nSteps + r.steps
                          /\ simCount' = IF simCount >= freq THEN simCount - freq
                                         ELSE simCount
                          /\ out' = <<Snapshot(st.snap)>>
                          /\ nSnap' = nSnap + 1
                          /\ err' = "none"
                          /\ pc' = IF simCount >= freq THEN "run_ctl" ELSE "run_last"
                          /\ UNCHANGED status
                ELSE /\ out' = <<Out("DONE")>>
                     /\ err' = "none"
                     /\ pc' = "command"
                     /\ UNCHANGED <<msd, status, simCount, nSnap, nSteps>>

\* case "RUN": the input() of line 300, whose line is ignored, then DONE
ReadRunLast(ln) ==
    /\ pc = "run_last"
    /\ Read(ln)
    /\ UNCHANGED <<simCount, freq, dkT, dB, nSnap, nSteps>>
    /\ IF ln.t = "eof" THEN Shutdown
       ELSE /\ out' = <<Out("DONE")>>
            /\ err' = "none"
            /\ pc' = "command"
            /\ UNCHANGED <<msd, status>>

\* case "GET" (MSDWorker.py:303-308): set(json.loads(input())) is the names
\* of a list and the keys of an object
ReadGetSelector(ln) ==
    /\ pc = "get_sel"
    /\ Read(ln)
    /\ NoRun
    /\ LET sel == IF ln.t = "obj" THEN ln.keys ELSE ln.names
           what == IF sel = {} THEN S_ALL ELSE sel
           st == state(msd, what)
       IN  IF ln.t = "eof" THEN Shutdown
           ELSE IF ln.t = "text" \/ st.exc # "none" THEN Fatal
           ELSE /\ out' = <<Snapshot(st.snap)>>
                /\ err' = "none"
                /\ pc' = "command"
                /\ UNCHANGED <<msd, status>>

\* case "RESET" (MSDWorker.py:310-312)
ReadResetBody(ln) ==
    /\ pc = "reset_body"
    /\ Read(ln)
    /\ NoRun
    /\ LET r == readJSON(ln)
       IN  IF r.exc = "EOFError" THEN Shutdown
           ELSE IF r.exc # "none" THEN Fatal
           ELSE \E s \in 0..MaxSeed :
                  LET m1 == reset([msd EXCEPT !.calls = <<>>], r.kw, s)
                      st == state(m1, {S_SEED})
                  IN  IF st.exc # "none" THEN Fatal
                      ELSE /\ msd' = m1
                           /\ out' = <<Snapshot(st.snap)>>
                           /\ err' = "none"
                           /\ pc' = "command"
                           /\ UNCHANGED status

\* Every RUN ends in ReadRunBody: state(msd, S_ALL) of line 290 raises, so no
\* run of the worker is blocked at line 291, 296 or 300 (RunLoopUnreachable
\* below), and ReadRunControl and ReadRunLast are no steps of the worker.
Next ==
    \/ \E ln \in ConfigInputs : ReadConfig(ln)
    \/ \E ln \in CommandInputs : ReadCommand(ln)
    \/ \E ln \in SetInputs : ReadSetBody(ln)
    \/ \E ln \in RunInputs : ReadRunBody(ln)
    \/ \E ln \in GetInputs : ReadGetSelector(ln)
    \/ \E ln \in ResetInputs : ReadResetBody(ln)

\* the steps of the loop of case RUN, were a run of the worker to get there
RunLoop ==
    \/ \E ln \in ControlInputs : ReadRunControl(ln)
    \/ \E ln \in ControlInputs : ReadRunLast(ln)

Spec == Init /\ [][Next]_vars

\* the worker is a sequential process: while a line is there to read, it
\* reads it and runs to its next input()
FairSpec == Spec /\ WF_vars(Next)

\* no run of the worker is blocked inside the loop of case RUN
RunLoopUnreachable == pc \notin {"run_ctl", "run_last"}


(***************************************************************************)
(* The library on its own: a call of MSD(...) with any of its arguments,   *)
(* and a call of setParameters(msd, kw) on a lattice whose nodes and edges *)
(* differ from each other, as one built from a molecule graph can.         *)
(***************************************************************************)
\* lattices with two nodes and two edges
Lattices ==
    {[live |-> TRUE, p |-> [kT |-> 0, B |-> b, SL |-> sl],
      nodes |-> <<[Sm |-> s1, Fm |-> f1], [Sm |-> s2, Fm |-> f2]>>,
      edges |-> <<[Jm |-> j1, bm |-> 0], [Jm |-> j2, bm |-> 0]>>,
      seed |-> 0, sites |-> "init", n |-> 3, algo |-> 0, calls |-> <<>>] :
        b \in 0..MaxVal, sl \in 0..MaxVal, s1 \in 0..MaxVal, f1 \in 0..MaxVal,
        s2 \in 0..MaxVal, f2 \in 0..MaxVal, j1 \in 0..MaxVal, j2 \in 0..MaxVal}

\* lattices of one node at any temperature and field
SimLattices ==
    {[live |-> TRUE, p |-> [kT |-> t, B |-> b, SL |-> 0],
      nodes |-> <<NodeDefault>>, edges |-> <<>>,
      seed |-> 0, sites |-> "init", n |-> 3, algo |-> 0, calls |-> <<>>] :
        t \in 0..MaxVal, b \in 0..MaxVal}

\* the dB of a call of sim: the float default, or a Vector (zero or not)
SimDB == {NoDB} \cup {[given |-> TRUE, v |-> v] : v \in 0..1}

\* the scenarios in which the caller of the lattice holds nothing
LibInitAlone ==
    \/ /\ pc = "ctor" /\ msd = NoMSD
       /\ ctor \in {[a |-> a, g |-> NoCtor.g, called |-> FALSE] : a \in CtorCalls}
       /\ cur = NoCur /\ molecule = NoMol /\ lat = NoLat
    \/ /\ pc = "setParameters" /\ msd \in Lattices
       /\ ctor = NoCtor
       /\ cur = NoCur /\ molecule = NoMol /\ lat = NoLat
    \/ /\ pc = "sim" /\ msd \in SimLattices
       /\ ctor = NoCtor
       /\ cur = NoCur /\ molecule = NoMol /\ lat = NoLat
    \/ /\ pc = "cursor" /\ msd = NoMSD /\ ctor = NoCtor
       /\ cur \in Cursors
       /\ molecule = NoMol /\ lat = NoLat
    \/ /\ pc = "iter" /\ msd = NoMSD /\ ctor = NoCtor
       /\ cur \in Iterations
       /\ molecule = NoMol /\ lat = NoLat
    \/ /\ pc = "reversed" /\ msd = NoMSD /\ ctor = NoCtor
       /\ cur \in Reversals
       /\ molecule = NoMol /\ lat = NoLat
    \/ /\ pc = "walk" /\ msd = NoMSD /\ ctor = NoCtor
       /\ cur \in Walks
       /\ molecule = NoMol /\ lat = NoLat
    \/ /\ pc = "molecule" /\ msd = NoMSD /\ ctor = NoCtor
       /\ cur = NoCur /\ lat = NoLat
       /\ molecule \in {MolOf(Molecule__init__(n, loops)) :
                           n \in 0..MaxNodes, loops \in {1, 2}}
    \/ /\ pc = "sites" /\ msd = NoMSD /\ ctor = NoCtor
       /\ cur = NoCur /\ molecule = NoMol
       /\ lat \in SiteLattices
    \/ /\ pc = "serialize" /\ msd = NoMSD /\ ctor = NoCtor
       /\ cur = NoCur /\ lat = NoLat
       /\ molecule \in {MolOf(g) : g \in SerialGraphs}

LibInit ==
    /\ simCount = 0 /\ freq = 0 /\ dkT = 0 /\ dB = NoDB
    /\ out = <<>> /\ err = "none" /\ status = -1
    /\ at = "start" /\ line = Text("")
    /\ nSnap = 0 /\ nSteps = 0
    /\ \/ /\ held = NoHeld /\ LibInitAlone
       \/ /\ pc = "held" /\ msd \in SimLattices /\ ctor = NoCtor
          /\ cur = NoCur /\ molecule = NoMol /\ lat = NoLat
          /\ held = NoHeld

\* msd = MSD(**a)
Construct ==
    /\ pc = "ctor"
    /\ LET g == MSD__init__(ctor.a)
       IN  /\ ctor' = [ctor EXCEPT !.g = g, !.called = TRUE]
           /\ msd' = IF g.raised THEN NoMSD ELSE createMSD(g, 0)
    /\ pc' = "returned"
    /\ UNCHANGED <<simCount, freq, dkT, dB, out, err, status, at, line, nSnap, nSteps,
                   cur, molecule, lat, held>>

\* setParameters(msd, kw) with kw the body of line ln as readJSON returns it
CallSetParameters(ln) ==
    /\ pc = "setParameters"
    /\ Read(ln)
    /\ msd' = setParameters(msd, readJSON(ln).kw)
    /\ pc' = "returned"
    /\ UNCHANGED <<simCount, freq, dkT, dB, out, err, status, nSnap, nSteps>>

\* sim(msd, n, dkT, dB): simCount, dkT and dB record the arguments, nSteps
\* the steps done and err the exception that left the call
CallSim(n, dkT_, dB_) ==
    /\ pc = "sim"
    /\ LET r == sim(msd, n, dkT_, dB_)
       IN  /\ msd' = r.m
           /\ nSteps' = r.steps
           /\ err' = r.exc
    /\ simCount' = n /\ dkT' = dkT_ /\ dB' = dB_
    /\ at' = "sim"
    /\ pc' = "returned"
    /\ UNCHANGED <<freq, out, status, line, nSnap, ctor, cur, molecule, lat, held>>


\* the offsets and indices tried on a collection: beyond its ends by one
Offsets == -(MaxSize + 1)..(MaxSize + 1)

\* what a call on a cursor, a Molecule or the sites leaves alone
WorkerVars == <<simCount, freq, dkT, dB, out, err, status, at, line, nSnap, nSteps,
                msd, ctor, held>>

\* c.next(), c.prev() or next(c)
CallStep(op) ==
    /\ pc = "cursor"
    /\ LET r == CASE op = "next" -> Node_next(cur.c, cur.L)
                  [] op = "prev" -> Node_prev(cur.c, cur.L)
                  [] op = "__next__" -> Node__next__(cur.c, cur.L)
       IN  cur' = [cur EXCEPT !.op = op, !.exc = r.exc, !.ret = r.ret, !.c = r.self]
    /\ pc' = "returned"
    /\ UNCHANGED <<WorkerVars, molecule, lat>>

\* the statement c += k or c -= k: ret is what the name c is bound to
\* afterwards, c the cursor object the method was called on
CallInPlace(op, k) ==
    /\ pc = "cursor"
    /\ LET r == IF op = "+=" THEN Node__iadd__(cur.c, k, cur.L)
                ELSE Node__isub__(cur.c, k, cur.L)
       IN  cur' = [cur EXCEPT !.op = op, !.arg = k, !.exc = r.exc, !.ret = r.ret,
                              !.c = r.self]
    /\ pc' = "returned"
    /\ UNCHANGED <<WorkerVars, molecule, lat>>

\* the expression c + k or c - k
CallOffset(op, k) ==
    /\ pc = "cursor"
    /\ LET r == IF op = "+" THEN Node__add__(cur.c, k, cur.L)
                ELSE Node__sub__(cur.c, k, cur.L)
       IN  /\ cur' = [cur EXCEPT !.op = op, !.arg = k, !.exc = r.exc, !.ret = r.ret,
                                 !.c = r.self]
           /\ pc' = IF r.exc = "none" THEN "value" ELSE "returned"
    /\ UNCHANGED <<WorkerVars, molecule, lat>>

\* the expression collection[index] of mol.nodes or mol.edges, the program
\* holding collection.begin
CallGetItem(index) ==
    /\ pc = "cursor"
    /\ cur.kind \in {"nodes", "edges"}
    /\ cur.c = NodeIterable_begin(cur.L)
    /\ LET r == NodeIterable__getitem__(index, cur.L)
       IN  /\ cur' = [cur EXCEPT !.op = "[]", !.arg = index, !.exc = r.exc,
                                 !.ret = r.ret]
           /\ pc' = IF r.exc = "none" THEN "value" ELSE "returned"
    /\ UNCHANGED <<WorkerVars, molecule, lat>>

\* v + k or v - k, v being the value of the expression before
ThenOffset(op, k) ==
    /\ pc = "value"
    /\ LET r == IF op = "+" THEN Node__add__(cur.ret, k, cur.L)
                ELSE Node__sub__(cur.ret, k, cur.L)
       IN  cur' = [cur EXCEPT !.op2 = op, !.arg2 = k, !.exc2 = r.exc, !.ret2 = r.ret]
    /\ pc' = "returned"
    /\ UNCHANGED <<WorkerVars, molecule, lat>>

\* v == collection.begin or v == collection.end: None.__eq__ is
\* NotImplemented, so Python calls the cursor's __eq__ with None as other
ThenEq(which) ==
    /\ pc = "value"
    /\ LET other == IF which = "begin" THEN NodeIterable_begin(cur.L)
                    ELSE NodeIterable_end(cur.L)
           r == Node__eq__(other, cur.ret)
       IN  cur' = [cur EXCEPT !.op2 = "== " \o which, !.arg2 = other.pos, !.exc2 = r.exc,
                              !.eq = IF r.exc # "none" THEN "none"
                                     ELSE IF r.v THEN "True" ELSE "False"]
    /\ pc' = "returned"
    /\ UNCHANGED <<WorkerVars, molecule, lat>>

\* one turn of for x in collection: x = next(it), the loop ending on
\* StopIteration
IterNext ==
    /\ pc = "iter"
    /\ LET r == Node__next__(cur.c, cur.L)
       IN  /\ cur' = [cur EXCEPT !.op = "for", !.exc = r.exc, !.ret = r.ret,
                                 !.was = cur.c, !.c = r.self,
                                 !.yielded = IF r.exc = "none" THEN Append(@, r.ret)
                                             ELSE @]
           /\ pc' = IF r.exc = "none" THEN "iter" ELSE "returned"
    /\ UNCHANGED <<WorkerVars, molecule, lat>>

\* for x in reversed(collection): the statement calls iter() on the cursor
\* that reversed() returned before it asks for any element
ForReversed ==
    /\ pc = "reversed"
    /\ cur.op = "none"
    /\ LET r == Node__iter__(cur.c)
       IN  cur' = [cur EXCEPT !.op = "for reversed", !.exc = r.exc, !.ret = r.ret,
                              !.c = r.self]
    /\ pc' = "returned"
    /\ UNCHANGED <<WorkerVars, molecule, lat>>

\* x = next(r), r being reversed(collection), called by the program itself
\* until StopIteration
ReversedNext ==
    /\ pc = "reversed"
    /\ LET r == Node__next__(cur.c, cur.L)
       IN  /\ cur' = [cur EXCEPT !.op = "next reversed", !.exc = r.exc, !.ret = r.ret,
                                 !.was = cur.c, !.c = r.self,
                                 !.yielded = IF r.exc = "none" THEN Append(@, r.ret)
                                             ELSE @]
           /\ pc' = IF r.exc = "none" THEN "reversed" ELSE "returned"
    /\ UNCHANGED <<WorkerVars, molecule, lat>>

\* The walk: a program holds a cursor object under a name of its own and
\* calls on it again and again, keeping the cursor the last next(), prev()
\* or clone() returned (snap; snapWas is what snap was when it was returned).

\* what a call leaves on the heap: w is the walk before it, heap the heap
\* after it, c and snap the two cursors the program holds after it
AfterCall(w, op, exc, heap, c, snap, snapWas) ==
    LET g == Collect(heap, c, snap)
    IN  [w EXCEPT !.op = op, !.exc = exc, !.heap = g.heap, !.c = g.c, !.snap = g.snap,
                  !.snapWas = snapWas, !.failed = @ \/ exc # "none"]

\* c.next(), c.prev() or next(c): MSD.py:188-203, 233
WalkStep(op) ==
    /\ pc = "walk"
    /\ LET v == ValueOf(cur.heap, cur.c)
           r == CASE op = "next" -> Node_next(v, cur.L)
                  [] op = "prev" -> Node_prev(v, cur.L)
                  [] op = "__next__" -> Node__next__(v, cur.L)
           moved == [cur.heap EXCEPT ![cur.c.node] = r.self.pos]
           c2 == [cur.c EXCEPT !.i = r.self.i]
       IN  IF r.exc # "none"
           THEN cur' = AfterCall(cur, op, r.exc, moved, c2, cur.snap, cur.snapWas)
           ELSE \* the clone is made where the cursor is when clone() runs
                LET n == Node_cloneObject([cur.heap EXCEPT ![cur.c.node] = r.ret.pos],
                                          [cur.c EXCEPT !.i = r.ret.i])
                    heap2 == [n.heap EXCEPT ![cur.c.node] = r.self.pos]
                IN  cur' = AfterCall(cur, op, "none", heap2, c2, n.c, r.ret)
    /\ UNCHANGED <<pc, WorkerVars, molecule, lat>>

\* c.__iadd__(k) or c.__isub__(k), which is what c += k and c -= k call
\* (MSD.py:235-245); the program keeps its own name for the object, the
\* statement binding c to None
WalkInPlace(op, k) ==
    /\ pc = "walk"
    /\ LET v == ValueOf(cur.heap, cur.c)
           r == IF op = "+=" THEN Node__iadd__(v, k, cur.L)
                ELSE Node__isub__(v, k, cur.L)
       IN  cur' = AfterCall(cur, op, r.exc,
                            [cur.heap EXCEPT ![cur.c.node] = r.self.pos],
                            [cur.c EXCEPT !.i = r.self.i], cur.snap, cur.snapWas)
    /\ UNCHANGED <<pc, WorkerVars, molecule, lat>>

\* c + k or c - k (MSD.py:247-255): a clone is made and moved; the value of
\* the expression is None, so the clone is dropped
WalkOffset(op, k) ==
    /\ pc = "walk"
    /\ LET n == Node_cloneObject(cur.heap, cur.c)
           v == ValueOf(n.heap, n.c)
           r == IF op = "+" THEN Node__iadd__(v, k, cur.L)
                ELSE Node__isub__(v, k, cur.L)
       IN  cur' = AfterCall(cur, op, r.exc,
                            [n.heap EXCEPT ![n.c.node] = r.self.pos],
                            cur.c, cur.snap, cur.snapWas)
    /\ UNCHANGED <<pc, WorkerVars, molecule, lat>>

\* c.clone() (MSD.py:218), the program keeping the clone
WalkClone ==
    /\ pc = "walk"
    /\ LET n == Node_cloneObject(cur.heap, cur.c)
       IN  cur' = AfterCall(cur, "clone", "none", n.heap, cur.c, n.c,
                            ValueOf(cur.heap, cur.c))
    /\ UNCHANGED <<pc, WorkerVars, molecule, lat>>

\* mol.createNode()
CallCreateNode ==
    /\ pc = "molecule"
    /\ Len(molecule.m.nodes) < MaxNodes
    /\ molecule' = [molecule EXCEPT !.m = Molecule_createNode(@), !.created = @ + 1]
    /\ UNCHANGED <<pc, WorkerVars, cur, lat>>

\* mol.connectNodes(nodeA, nodeB) for two nodes of the graph
CallConnectNodes(nodeA, nodeB) ==
    /\ pc = "molecule"
    /\ Len(molecule.m.conn) < MaxEdges
    /\ nodeA < Len(molecule.m.nodes) /\ nodeB < Len(molecule.m.nodes)
    /\ molecule' = [molecule EXCEPT !.m = Molecule_connectNodes(@, nodeA, nodeB),
                                    !.connected = @ + 1]
    /\ UNCHANGED <<pc, WorkerVars, cur, lat>>

\* mol.edgesUnique, with mol.edges at the same time
ReadEdgesUnique ==
    /\ pc = "molecule"
    /\ molecule' = [molecule EXCEPT !.read = "edgesUnique",
                                    !.edges = Molecule_edges(molecule.m),
                                    !.unique = Molecule_edgesUnique(molecule.m)]
    /\ pc' = "returned"
    /\ UNCHANGED <<WorkerVars, cur, lat>>

\* buffer = create_string_buffer(mol.serializationSize); mol.serialize(buffer)
CallSerialize ==
    /\ pc = "serialize"
    /\ molecule' = [molecule EXCEPT
                      !.read = "serialize",
                      !.buffer = Molecule_serialize(molecule.m)]
    /\ pc' = "buffer"
    /\ UNCHANGED <<WorkerVars, cur, lat>>

\* copy = Molecule(); copy.deserialize(buffer)
CallDeserialize(ends) ==
    /\ pc = "buffer"
    /\ Len(ends) = Len(molecule.m.conn)
    /\ molecule' = [molecule EXCEPT
                      !.read = "deserialize",
                      !.copy = Molecule_deserialize(Molecule__init__(0, molecule.m.loops),
                                                    molecule.buffer, ends)]
    /\ pc' = "returned"
    /\ UNCHANGED <<WorkerVars, cur, lat>>

\* the setters and the shapes of a call of each: by index or by
\* coordinates, the values positional or by keyword
Setters == {"setSpin", "setFlux", "setLocalM", "[]="}
Shapes(fn) == IF fn = "[]=" THEN {"positional"} ELSE {"positional", "keyword"}

\* a call of a setter for the site at (x, y, z), in one form and shape
CallSet(fn, form, shape, x, y, z, spin, flux) ==
    /\ pc = "sites"
    /\ x < lat.dim[1] /\ y < lat.dim[2] /\ z < lat.dim[3]
    /\ shape \in Shapes(fn)
    /\ LET a == x + lat.dim[1] * (y + lat.dim[2] * z)
           S == PVec(spin)
           F == PVec(flux)
           kw == shape = "keyword"
           r == CASE fn = "setSpin" /\ form = "a" ->
                       IF kw THEN MSD_setSpin(lat, PInt(a), PNone, PNone, S)
                       ELSE MSD_setSpin(lat, PInt(a), S, PNone, PNone)
                  [] fn = "setSpin" /\ form = "xyz" ->
                       MSD_setSpin(lat, PInt(x), PInt(y), PInt(z), S)
                  [] fn = "setFlux" /\ form = "a" ->
                       IF kw THEN MSD_setFlux(lat, PInt(a), PNone, PNone, F)
                       ELSE MSD_setFlux(lat, PInt(a), F, PNone, PNone)
                  [] fn = "setFlux" /\ form = "xyz" ->
                       MSD_setFlux(lat, PInt(x), PInt(y), PInt(z), F)
                  [] fn = "setLocalM" /\ form = "a" ->
                       IF kw THEN MSD_setLocalM(lat, PInt(a), PNone, PNone, S, F)
                       ELSE MSD_setLocalM(lat, PInt(a), S, F, PNone, PNone)
                  [] fn = "setLocalM" /\ form = "xyz" ->
                       MSD_setLocalM(lat, PInt(x), PInt(y), PInt(z), S, F)
                  [] fn = "[]=" /\ form = "a" ->
                       MSD__setitem__(lat, <<PInt(a)>>, <<S, F>>)
                  [] fn = "[]=" /\ form = "xyz" ->
                       MSD__setitem__(lat, <<PInt(x), PInt(y), PInt(z)>>, <<S, F>>)
       IN  lat' = [lat EXCEPT
                     !.site = r.l.site,
                     !.w = [fn |-> fn, form |-> form, shape |-> shape, a |-> a,
                            xyz |-> <<x, y, z>>,
                            spin |-> IF fn = "setFlux" THEN 0 ELSE spin,
                            flux |-> IF fn = "setSpin" THEN 0 ELSE flux,
                            exc |-> r.exc, via |-> r.via, ret |-> r.ret]]
    /\ pc' = "written"
    /\ UNCHANGED <<WorkerVars, cur, molecule>>

\* a call of a getter for the site written, in one form
CallGet(fn, form) ==
    /\ pc = "written"
    /\ LET a == PInt(lat.w.a)
           x == PInt(lat.w.xyz[1])
           y == PInt(lat.w.xyz[2])
           z == PInt(lat.w.xyz[3])
           r == CASE fn = "[]" /\ form = "a" -> MSD__getitem__(lat, <<a>>)
                  [] fn = "[]" /\ form = "xyz" -> MSD__getitem__(lat, <<x, y, z>>)
                  [] fn # "[]" /\ form = "a" -> MSD_get(fn, lat, a, PNone, PNone)
                  [] fn # "[]" /\ form = "xyz" -> MSD_get(fn, lat, x, y, z)
       IN  lat' = [lat EXCEPT
                     !.r = [lat.w EXCEPT !.fn = fn, !.form = form, !.shape = "positional",
                                         !.exc = r.exc, !.via = r.via,
                                         !.ret = r.ret]]
    /\ pc' = "returned"
    /\ UNCHANGED <<WorkerVars, cur, molecule>>

\* what a call made by the holder of a Parameters record or of a Molecule
\* leaves alone
HolderFrame == <<simCount, freq, dkT, dB, out, err, status, at, line, nSnap, nSteps,
                 ctor, cur, molecule, lat>>

\* p = msd.getParameters()
HeldGetParameters ==
    /\ pc = "held"
    /\ held' = [held EXCEPT !.p = MSD_getParameters(msd), !.op = "getParameters"]
    /\ UNCHANGED <<pc, msd, HolderFrame>>

\* p.k = v on the record held: a write to the storage of p
HeldAssign(k, v) ==
    /\ pc = "held"
    /\ held.p.has
    /\ LET p == [held.p EXCEPT !.v[k] = v]
       IN  /\ held' = [held EXCEPT !.p = p, !.op = "p.k = v"]
           /\ msd' = IF p.alias THEN setParametersE(msd, p.v) ELSE msd
    /\ UNCHANGED <<pc, HolderFrame>>

\* msd.parameters = p
HeldSetParameters ==
    /\ pc = "held"
    /\ held.p.has
    /\ msd' = MSD_setParameters(msd, held.p)
    /\ held' = [held EXCEPT !.op = "setParameters"]
    /\ UNCHANGED <<pc, HolderFrame>>

\* msd.kT = v or msd.B = v
HeldSetScalar(k, v) ==
    /\ pc = "held"
    /\ msd' = IF k = "kT" THEN MSD_set_kT(msd, v) ELSE MSD_setB(msd, v)
    /\ held' = [held EXCEPT !.op = "set " \o k]
    /\ UNCHANGED <<pc, HolderFrame>>

\* mol = msd.getMolProto()
HeldGetMolProto ==
    /\ pc = "held"
    /\ held' = [held EXCEPT !.g = MSD_getMolProto(msd), !.op = "getMolProto"]
    /\ UNCHANGED <<pc, msd, HolderFrame>>

\* mol.setNodeParamters(i, NodeParameters(Sm = v)) on the Molecule held
\* (MSD.py:446)
HeldSetNode(i, v) ==
    /\ pc = "held"
    /\ held.g.has
    /\ i \in DOMAIN held.g.v.nodes
    /\ LET g == [held.g EXCEPT !.v.nodes[i] = [NodeDefault EXCEPT !.Sm = v]]
       IN  /\ held' = [held EXCEPT !.g = g, !.op = "setNodeParamters"]
           /\ msd' = IF g.alias THEN setMolProto(msd, g.v) ELSE msd
    /\ UNCHANGED <<pc, HolderFrame>>

\* msd.molProto = mol
HeldSetMolProto ==
    /\ pc = "held"
    /\ held.g.has
    /\ msd' = MSD_setMolProto(msd, held.g)
    /\ held' = [held EXCEPT !.g.passed = TRUE, !.op = "setMolProto"]
    /\ UNCHANGED <<pc, HolderFrame>>

LibNext ==
    \/ Construct
    \/ \E n \in 0..MaxN, d \in 0..1, b \in SimDB : CallSim(n, d, b)
    \/ \E ln \in SetLines : CallSetParameters(ln)
    \/ \E op \in {"next", "prev", "__next__"} : CallStep(op)
    \/ \E op \in {"+=", "-="}, k \in Offsets : CallInPlace(op, k)
    \/ \E op \in {"+", "-"}, k \in Offsets : CallOffset(op, k)
    \/ \E index \in Offsets : CallGetItem(index)
    \/ \E op \in {"+", "-"}, k \in Offsets : ThenOffset(op, k)
    \/ \E which \in {"begin", "end"} : ThenEq(which)
    \/ IterNext
    \/ ForReversed
    \/ ReversedNext
    \/ \E op \in {"next", "prev", "__next__"} : WalkStep(op)
    \/ \E op \in {"+=", "-="}, k \in Offsets : WalkInPlace(op, k)
    \/ \E op \in {"+", "-"}, k \in Offsets : WalkOffset(op, k)
    \/ WalkClone
    \/ CallCreateNode
    \/ \E nodeA \in 0..(MaxNodes - 1), nodeB \in 0..(MaxNodes - 1) :
         CallConnectNodes(nodeA, nodeB)
    \/ ReadEdgesUnique
    \/ CallSerialize
    \/ \E fn \in Setters, form \in {"a", "xyz"}, shape \in {"positional", "keyword"},
          x \in 0..(MaxDim - 1), y \in 0..(MaxDim - 1), z \in 0..1,
          spin \in 1..MaxVal, flux \in 1..MaxVal :
         CallSet(fn, form, shape, x, y, z, spin, flux)
    \/ \E fn \in {"getSpin", "getFlux", "getLocalM", "[]"}, form \in {"a", "xyz"} :
         CallGet(fn, form)
    \/ \E ends \in {<<>>} \cup {<<<<a, b>>>> : a \in 0..(MaxNodes - 1),
                                               b \in 0..(MaxNodes - 1)} :
         CallDeserialize(ends)
    \/ HeldGetParameters
    \/ \E k \in {"kT", "B"}, v \in 0..MaxVal : HeldAssign(k, v)
    \/ HeldSetParameters
    \/ \E k \in {"kT", "B"}, v \in 0..MaxVal : HeldSetScalar(k, v)
    \/ HeldGetMolProto
    \/ \E i \in 1..MaxNodes, v \in 0..MaxVal : HeldSetNode(i, v)
    \/ HeldSetMolProto

LibSpec == LibInit /\ [][LibNext]_vars

(***************************************************************************)
(* The claims.  at and line tell which input() returned last and with what *)
(* line, so a state right after a step shows the line and its effect.      *)
(***************************************************************************)
\* the last line read is the body of a RUN: an object with a step count and
\* without a ramp
RunBodyRead ==
    /\ at = "run_body" /\ line.t = "obj"
    /\ "simCount" \in line.keys /\ "dkT" \notin line.keys /\ "dB" \notin line.keys

\* the RUN of the last line read is over
RunOver == pc \in {"command", "terminated"}

\* C1: a RUN whose step count N is a positive multiple of a positive
\* checkpoint interval F, never cancelled, has emitted N/F snapshots and then
\* DONE when it is over.
C1_SnapshotsThenDone ==
    (/\ RunBodyRead /\ "freq" \in line.keys
     /\ line.val["freq"] > 0 /\ line.val["simCount"] > 0
     /\ line.val["simCount"] % line.val["freq"] = 0
     /\ RunOver)
    => (out = <<Out("DONE")>> /\ nSnap = line.val["simCount"] \div line.val["freq"])

\* C2: a RUN with 0 < F < N gets to its first snapshot with F steps executed
\* and there awaits the control line that may cancel it.
C2_FirstSnapshotAfterFSteps ==
    (/\ RunBodyRead /\ "freq" \in line.keys
     /\ 0 < line.val["freq"] /\ line.val["freq"] < line.val["simCount"])
    => (pc = "run_ctl" /\ nSnap = 1 /\ nSteps = line.val["freq"])

\* C3: a RUN with step count N > 0 that is not cancelled has executed N
\* steps in all when it is over, whatever its checkpoint interval.
C3_StepsSumToN ==
    (RunBodyRead /\ line.val["simCount"] > 0 /\ RunOver)
    => nSteps = line.val["simCount"]

\* C4: every RUN terminates: once its body (N >= 0, any checkpoint interval)
\* is read, the worker emits DONE and is back at the command position,
\* unless the run is cancelled or input ends.
C4_RunTerminates ==
    (RunBodyRead /\ line.val["simCount"] >= 0)
    ~> ((pc = "command" /\ out = <<Out("DONE")>>)
        \/ line.t = "eof" \/ (line.t = "text" /\ line.s = "CANCEL"))

C7_EofIsCleanShutdown ==
    line.t = "eof"
    => (pc = "terminated" /\ status = 0 /\ err = "none" /\ out = <<>>)

\* C7: input has ended where the body of a RUN was due
C7_EofInBody == line.t = "eof" /\ at = "run_body" /\ status = 0 /\ err = "none"

\* a configuration line that cannot be parsed or applied, or that MSD()
\* cannot be constructed from
ConfigBad ==
    \/ line.t \in {"text", "list"}
    \/ /\ line.t = "obj"
       /\ \/ ~({"width", "height", "depth"} \subseteq line.keys)
          \/ "molType" \in line.keys /\ line.val["molType"] = UnknownTag
          \/ "flippingAlgorithm" \in line.keys
             /\ line.val["flippingAlgorithm"] = UnknownTag
          \/ "molPosL" \in line.keys /\ "molPosR" \notin line.keys

\* C8: a configuration that fails ends the worker with a diagnostic and a
\* non-zero status and without READY; READY is emitted only once the lattice
\* is constructed and the parameters, the seed and the randomization of the
\* configuration are applied, and the command loop is entered only then.
C8_ReadyOnlyAfterInit ==
    /\ (at = "config" /\ ConfigBad)
         => (pc = "terminated" /\ status = 1 /\ err = "traceback" /\ out = <<>>)
    /\ (out = <<Out("READY")>>)
         => /\ at = "config" /\ pc = "command" /\ ~ConfigBad /\ msd.live
            /\ \A k \in line.keys \cap MSD_PARAMS : getParameters(msd)[k] = line.val[k]
            /\ \A k \in line.keys \cap MOL_NODE_PARAMS :
                 \A i \in DOMAIN msd.nodes : msd.nodes[i][k] = line.val[k]
            /\ "seed" \in line.keys => msd.seed = line.val["seed"]
            /\ msd.sites = IF "randomize" \in line.keys /\ line.val["randomize"] # 0
                           THEN "rand" ELSE "init"
    /\ pc \notin {"config", "terminated"} => msd.live
    /\ (at = "config" /\ pc = "command") => out = <<Out("READY")>>

\* C8: a configuration with a molecule-type tag that is not known has failed
C8_InitFailed ==
    /\ at = "config" /\ line.t = "obj" /\ line.val["molType"] = UnknownTag
    /\ pc = "terminated" /\ status = 1 /\ err = "traceback"

\* C9: a line at the command position that is no command keyword leaves the
\* lattice as it is, writes only a diagnostic, and the worker reads the next
\* line as a command.
C9_UnknownCommandIsNotFatal ==
    [][(/\ pc = "command" /\ at' = "command"
        /\ \/ line'.t = "obj"
           \/ line'.t = "text" /\ line'.s \in {"go", "CANCEL"})
       => (/\ msd' = msd /\ pc' = "command" /\ status' = status
           /\ err' = "unrecognized" /\ out' = <<>>)]_vars

\* C9: CANCEL was read as a command by a worker whose lattice has been set
\* up and randomized
C9_UnknownCommandRead ==
    /\ at = "command" /\ line = Text("CANCEL") /\ err = "unrecognized"
    /\ pc = "command" /\ msd.live /\ getParameters(msd).kT # 0 /\ msd.sites = "rand"

C11_MergeOverlaysOnlyGivenKeys ==
    [][(/\ pc = "setParameters" /\ at' = "setParameters"
        /\ ~(line'.keys \subseteq {"kT", "B"}))
       => (/\ DOMAIN msd'.nodes = DOMAIN msd.nodes
           /\ DOMAIN msd'.edges = DOMAIN msd.edges
           /\ \A i \in DOMAIN msd.nodes : \A k \in {"Sm", "Fm"} :
                msd'.nodes[i][k] = IF k \in line'.keys THEN line'.val[k]
                                   ELSE msd.nodes[i][k]
           /\ \A i \in DOMAIN msd.edges : \A k \in {"Jm", "bm"} :
                msd'.edges[i][k] = IF k \in line'.keys THEN line'.val[k]
                                   ELSE msd.edges[i][k]
           /\ \A k \in {"kT", "B", "SL"} :
                msd'.p[k] = IF k \in line'.keys THEN line'.val[k] ELSE msd.p[k]
           /\ msd'.seed = msd.seed /\ msd'.sites = msd.sites)]_vars

\* C11: SL and Sm were set on a lattice whose two nodes differ in Fm, whose
\* two edges differ in Jm and whose field is not the default
C11_MergedOnNonUniform ==
    /\ at = "setParameters" /\ line.keys = {"SL", "Sm"} /\ pc = "returned"
    /\ msd.nodes[1].Sm = line.val["Sm"] /\ msd.nodes[2].Sm = line.val["Sm"]
    /\ msd.nodes[1].Fm # msd.nodes[2].Fm
    /\ msd.edges[1].Jm # msd.edges[2].Jm
    /\ msd.p.SL = line.val["SL"] /\ msd.p.B # 0

\* the body of line ln without the keys that name no lattice, node or edge
\* coefficient
CoefficientsOf(ln) ==
    [keys |-> ln.keys \cap (MSD_PARAMS \cup MOL_NODE_PARAMS \cup MOL_EDGE_PARAMS),
     val |-> ln.val]

\* a key of the body of line ln has a value that the converter of the key
\* does not take
ValueRejected(ln) ==
    \/ "molType" \in ln.keys /\ ln.val["molType"] \notin {LINEAR, CIRCULAR}
    \/ "flippingAlgorithm" \in ln.keys
       /\ ln.val["flippingAlgorithm"] \notin {UP_DOWN_MODEL, CONTINUOUS_SPIN_MODEL}

C13_GetEmitsRequestedGroups ==
    (at = "get_sel" /\ line.t = "list")
    => (/\ pc = "command" /\ err = "none"
        /\ Len(out) = 1 /\ out[1].t = "STATE"
        /\ out[1].snap.groups = IF line.names = {} THEN S_ALL
                                ELSE line.names \cap S_ALL)

\* C14: a RESET whose body gives a seed emits that seed as the resulting
\* seed, and the lattice holds it, whatever the randomize and reseed flags
\* of the body.
C14_ResetKeepsGivenSeed ==
    (at = "reset_body" /\ line.t = "obj" /\ "seed" \in line.keys)
    => (/\ pc = "command" /\ err = "none"
        /\ Len(out) = 1 /\ out[1].t = "STATE"
        /\ out[1].snap.groups = {S_SEED}
        /\ out[1].snap.seed = line.val["seed"]
        /\ msd.seed = line.val["seed"])

\* C14: a RESET with a seed other than 0, randomize and reseed both true,
\* has randomized the lattice and emitted the seed of the body
C14_SeededRandomizingReset ==
    /\ at = "reset_body" /\ line.t = "obj"
    /\ {"seed", "randomize", "reseed"} \subseteq line.keys
    /\ line.val["seed"] # 0 /\ line.val["randomize"] # 0 /\ line.val["reseed"] # 0
    /\ msd.sites = "rand" /\ Len(out) = 1 /\ out[1].snap.seed = line.val["seed"]

\* C15: a call of sim for N > 0 steps with a temperature delta or a field
\* delta that is not zero returns without error, having done N steps, with
\* the temperature of the lattice at T0 + N*dkT and its field at B0 + N*dB.
C15_RampReachesFinalValues ==
    [][(/\ pc = "sim" /\ at' = "sim" /\ simCount' > 0
        /\ (dkT' # 0 \/ dB'.v # 0))
       => (/\ err' = "none" /\ nSteps' = simCount'
           /\ getParameters(msd').kT = getParameters(msd).kT + simCount' * dkT'
           /\ getParameters(msd').B = getParameters(msd).B + simCount' * dB'.v)]_vars

\* the three axis-pairs of MSD(...): <<length, left, right, extent>>
AxisPairs ==
    {<<"molLen", "molPosL", "molPosR", "width">>,
     <<"heightL", "topL", "bottomL", "height">>,
     <<"depthR", "frontR", "backR", "depth">>}

\* a call of MSD(...) has returned a lattice
Constructed == pc = "returned" /\ ctor.called /\ ~ctor.g.raised

\* a call of MSD(...) has raised
ConstructionFailed == pc = "returned" /\ ctor.called /\ ctor.g.raised /\ ~msd.live

\* C16: when a length is given for an axis-pair and the construction
\* succeeds, the resolved bounds satisfy right - left + 1 = length and every
\* boundary that was given keeps the value given.
C16_SpanMatchesLength ==
    Constructed
    => \A x \in AxisPairs :
         x[1] \in ctor.a.has
         => /\ ctor.g.v[x[3]] - ctor.g.v[x[2]] + 1 = ctor.a.v[x[1]]
            /\ \A k \in {x[2], x[3]} \cap ctor.a.has : ctor.g.v[k] = ctor.a.v[k]

\* C16: a lattice was constructed from a molecule length and the right
\* boundary alone
C16_LeftDerived ==
    /\ Constructed
    /\ {"molLen", "molPosR"} \subseteq ctor.a.has
    /\ ctor.a.has \cap {"molPosL", "molPos", "molProto"} = {}
    /\ ctor.g.v["molPosL"] = ctor.a.v["molPosR"] - ctor.a.v["molLen"] + 1

\* C17: a call that gives a length and both boundaries of an axis-pair with
\* length # right - left + 1 raises and creates no lattice.
C17_InconsistentTripleFails ==
    (/\ pc = "returned" /\ ctor.called
     /\ \E x \in AxisPairs :
          /\ {x[1], x[2], x[3]} \subseteq ctor.a.has
          /\ ctor.a.v[x[1]] # ctor.a.v[x[3]] - ctor.a.v[x[2]] + 1)
    => (ctor.g.raised /\ ~msd.live)

\* C17: a call with heightL, topL and bottomL that do not agree has raised
C17_LeadTripleRejected ==
    /\ ConstructionFailed
    /\ {"heightL", "topL", "bottomL"} \subseteq ctor.a.has
    /\ ctor.a.v["heightL"] # ctor.a.v["bottomL"] - ctor.a.v["topL"] + 1

\* the calls that give the length of axis-pair x and neither of its
\* boundaries (nor molPos, which stands for both)
LengthOnly(x) ==
    /\ x[1] \in ctor.a.has
    /\ ctor.a.has \cap {x[2], x[3]} = {}
    /\ x[1] = "molLen" => "molPos" \notin ctor.a.has

C19_Defaults ==
    Constructed
    => /\ ctor.a.has \cap {"heightL", "topL", "bottomL"} = {}
            => ctor.g.v["topL"] = 0 /\ ctor.g.v["bottomL"] = ctor.a.v["height"] - 1
       /\ ctor.a.has \cap {"depthR", "frontR", "backR"} = {}
            => ctor.g.v["frontR"] = 0 /\ ctor.g.v["backR"] = ctor.a.v["depth"] - 1
       /\ ctor.a.has \cap {"molLen", "molProto", "molPos", "molPosL", "molPosR"} = {}
            => /\ ctor.g.v["molPosL"] = (ctor.a.v["width"] - 1) \div 2
               /\ ctor.g.v["molPosR"] = ctor.g.v["molPosL"]

\* C19: a lattice of the largest width was constructed from its dimensions
\* and a molecule-type tag alone
C19_NothingGiven ==
    /\ Constructed
    /\ ctor.a.has = {"width", "height", "depth", "molType"}
    /\ ctor.a.v["width"] = MaxDim
    /\ ctor.g.v["molPosL"] = (MaxDim - 1) \div 2
    /\ msd.live /\ Len(msd.nodes) = 1

\* the first call of the constructor test: MSD(13, 10, 10, molPosL = 5,
\* molPosR = 7, molType = CIRCULAR_MOL, topL = 3, bottomL = 7, frontR = 3,
\* backR = 7)
TagOnlyTestCall ==
    /\ ctor.a.has = {"width", "height", "depth", "molType", "molPosL", "molPosR",
                     "topL", "bottomL", "frontR", "backR"}
    /\ ctor.a.v["width"] = 13 /\ ctor.a.v["molPosL"] = 5 /\ ctor.a.v["molPosR"] = 7
    /\ ctor.a.v["molType"] = CIRCULAR

\* C20: a call with both a molecule graph and a molecule-type tag raises and
\* creates no lattice, whatever its other arguments; the call of the test
\* with a tag alone and the span 5..7 of a width of 13 returns a lattice
\* whose molecule has 3 nodes.
C20_GraphAndTagExclusive ==
    (pc = "returned" /\ ctor.called)
    => /\ {"molProto", "molType"} \subseteq ctor.a.has => (ctor.g.raised /\ ~msd.live)
       /\ TagOnlyTestCall
            => /\ ~ctor.g.raised /\ msd.live
               /\ ctor.g.v["molPosR"] - ctor.g.v["molPosL"] + 1 = 3
               /\ Len(msd.nodes) = 3

\* C20: a call with a graph and a tag whose other arguments agree with each
\* other has raised
C20_BothGiven ==
    /\ ConstructionFailed
    /\ {"molProto", "molType", "molPosL", "molPosR"} \subseteq ctor.a.has
    /\ ctor.a.v["molProto"] = ctor.a.v["molPosR"] - ctor.a.v["molPosL"] + 1
    /\ ctor.a.has \cap {"molPos", "molLen"} = {}


\* a call that gives exactly one boundary of the molecule and nothing the
\* other could come from: no molPos, no molLen and no molecule graph
OneMolBoundaryOnly ==
    /\ Cardinality(ctor.a.has \cap {"molPosL", "molPosR"}) = 1
    /\ ctor.a.has \cap {"molPos", "molLen", "molProto"} = {}

\* C21: a call that gives exactly one of molPosL / molPosR, with no molPos,
\* no length and no graph to derive the other from, raises and creates no
\* lattice; it never returns a lattice built without the boundary given.
C21_UnderSpecifiedFails ==
    (pc = "returned" /\ ctor.called /\ OneMolBoundaryOnly)
    => (ctor.g.raised /\ ~msd.live)


\* the call made on the cursor was made on collection.begin
OnBegin == cur.was = NodeIterable_begin(cur.L)

\* value v is a cursor that compares equal to cursor c
EqualCursor(v, c) == Node__eq__(c, v).exc = "none" /\ Node__eq__(c, v).v

\* C22: for a collection of length L, begin + L is a cursor that compares
\* equal to end, (begin + i) - i is a cursor that compares equal to begin for
\* every 0 <= i <= L, and + and - leave the cursor they are applied to as it
\* was.
C22_OffsetRoundTrip ==
    /\ (pc = "value" /\ OnBegin /\ cur.op = "+" /\ cur.arg = cur.L)
       => EqualCursor(cur.ret, NodeIterable_end(cur.L))
    /\ (pc = "returned" /\ OnBegin /\ cur.op = "+" /\ cur.arg = cur.L
        /\ cur.op2 = "== end")
       => cur.eq = "True"
    /\ (pc = "returned" /\ OnBegin /\ cur.op = "+" /\ cur.arg \in 0..cur.L
        /\ cur.op2 = "-" /\ cur.arg2 = cur.arg)
       => (cur.exc2 = "none" /\ EqualCursor(cur.ret2, NodeIterable_begin(cur.L)))
    /\ (pc \in {"value", "returned"} /\ cur.op \in {"+", "-"})
       => cur.c = cur.was


\* the last call on the cursor advanced it as a forward cursor advances
Advanced == cur.op = "next" \/ (cur.op \in {"__next__", "for"} /\ cur.was.dir = "FORWARD")

\* the last call on the cursor retreated it
Retreated == cur.op = "prev" \/ (cur.op = "__next__" /\ cur.was.dir = "BACKWARD")

\* C23: one step forward from position end - 1 leaves the cursor at a
\* position equal to end, with metaIndex L; a step forward at end and a step
\* back at begin fail (StopIteration leaves the call) and leave the cursor's
\* position and metaIndex as they were.
C23_StepsStopAtTheEnds ==
    (pc \in {"iter", "returned"} /\ cur.op \in {"next", "prev", "__next__", "for"})
    => /\ (Advanced /\ cur.was.pos = cur.L - 1)
          => /\ cur.exc = "none"
             /\ EqualCursor(cur.c, NodeIterable_end(cur.L))
             /\ cur.c.i = cur.L
       /\ (Advanced /\ EqualCursor(cur.was, NodeIterable_end(cur.L)))
          => /\ cur.exc = "StopIteration"
             /\ cur.c.pos = cur.was.pos /\ cur.c.i = cur.was.i
       /\ (Retreated /\ EqualCursor(cur.was, NodeIterable_begin(cur.L)))
          => /\ cur.exc = "StopIteration"
             /\ cur.c.pos = cur.was.pos /\ cur.c.i = cur.was.i

\* C23: next() was called on a cursor at the end of a collection of the
\* largest size and raised
C23_NextAtEnd ==
    /\ pc = "returned" /\ cur.op = "next"
    /\ cur.L = MaxSize /\ cur.was.pos = cur.L
    /\ cur.exc = "StopIteration"


\* a for loop over the collection is under way or over
Looping == pc = "iter" \/ (pc = "returned" /\ cur.op = "for")

\* C24: a for loop over a collection of length L yields cursors with
\* metaIndex 0, 1, ... in that order, the j-th at position j - 1 and none at
\* end; each cursor yielded is the position the iterator had before the turn
\* moved it on; the loop ends, by StopIteration, when exactly L were yielded.
C24_ForwardIterationYieldsEach ==
    Looping
    => /\ Len(cur.yielded) <= cur.L
       /\ \A j \in 1..Len(cur.yielded) :
            /\ cur.yielded[j].i = j - 1
            /\ cur.yielded[j].pos = j - 1
            /\ ~EqualCursor(cur.yielded[j], NodeIterable_end(cur.L))
       /\ (pc = "iter" /\ cur.op = "for")
          => /\ cur.exc = "none"
             /\ cur.ret = cur.yielded[Len(cur.yielded)]
             /\ cur.ret.pos = cur.was.pos /\ cur.ret.i = cur.was.i
             /\ cur.c.pos = cur.was.pos + 1 /\ cur.c.i = cur.was.i + 1
       /\ pc = "returned"
          => /\ cur.exc = "StopIteration"
             /\ Len(cur.yielded) = cur.L

\* C24: a for loop over the sites of a lattice of the largest size has
\* ended
C24_LoopOverSitesEnded ==
    /\ pc = "returned" /\ cur.op = "for" /\ cur.kind = "sites"
    /\ cur.L = MaxSize /\ Len(cur.yielded) = MaxSize


\* the offset the last +, -, += or -= asked for, counted from begin
Target == IF cur.op \in {"+", "+="} THEN cur.was.i + cur.arg ELSE cur.was.i - cur.arg

\* C25: c + k, c - k, c += k and c -= k, for k of either sign, raise if and
\* only if the offset asked for is outside [0, L]; the exception is the
\* bounds check's IndexError and the cursor's position and metaIndex are as
\* before; when += or -= does not raise, the cursor is at the offset asked
\* for.
C25_OffsetsAreBoundsChecked ==
    (pc \in {"value", "returned"} /\ cur.op \in {"+", "-", "+=", "-="})
    => /\ cur.exc = "none" <=> Target \in 0..cur.L
       /\ cur.exc # "none"
          => /\ cur.exc = "IndexError"
             /\ cur.c.pos = cur.was.pos /\ cur.c.i = cur.was.i
       /\ (cur.exc = "none" /\ cur.op \in {"+=", "-="})
          => /\ cur.c.i = Target
             /\ cur.c.pos = cur.was.pos + (Target - cur.was.i)

\* C25: c += -1 on a cursor at begin was rejected
C25_NegativeOffsetRejected ==
    /\ pc = "returned" /\ cur.op = "+=" /\ cur.arg = -1
    /\ cur.was.i = 0 /\ cur.L = MaxSize
    /\ cur.exc = "IndexError"


\* collection[index] has been evaluated
Indexed == pc \in {"value", "returned"} /\ cur.op = "[]"

\* C26: for a node or edge collection of length L >= 1, collection[i] with
\* 0 <= i < L is a cursor at element i, and collection[-k] with 1 <= k <= L
\* is a cursor at element L - k.
C26_IndexCountsFromEitherEnd ==
    (Indexed /\ cur.L >= 1 /\ cur.arg \in -cur.L..(cur.L - 1))
    => /\ cur.exc = "none"
       /\ cur.ret # PyNone
       /\ cur.ret.pos = IF cur.arg >= 0 THEN cur.arg ELSE cur.L + cur.arg
       /\ cur.ret.i = cur.ret.pos

\* C27: collection[i] with i >= L or i < -L, for any L including 0, raises;
\* it gives no value.
C27_IndexOutOfRangeFails ==
    (Indexed /\ (cur.arg >= cur.L \/ cur.arg < -cur.L))
    => (cur.exc # "none" /\ pc = "returned")


\* the index of the edge an entry of edgesUnique stands at
UniqueIndex(j) == edgeIndex_i(molecule.edges, molecule.unique[j].pos)

\* the first position of the traversal with the edge index x
FirstAt(x) ==
    CHOOSE p \in 0..(Len(molecule.edges) - 1) :
       /\ edgeIndex_i(molecule.edges, p) = x
       /\ \A q \in 0..(p - 1) : edgeIndex_i(molecule.edges, q) # x

\* C28: after any createNode and connectNodes calls, edgesUnique has as
\* many entries as connectNodes calls were made, one for each edge index and
\* no two for the same, each the first entry of the edges traversal with
\* that index and in the order of the traversal, however many entries the
\* traversal has.
C28_EdgesUniqueOnePerEdge ==
    (pc = "returned" /\ molecule.read = "edgesUnique")
    => /\ Len(molecule.unique) = molecule.connected
       /\ {UniqueIndex(j) : j \in 1..Len(molecule.unique)}
            = 0..(Len(molecule.m.conn) - 1)
       /\ \A j, k \in 1..Len(molecule.unique) :
            /\ j # k => UniqueIndex(j) # UniqueIndex(k)
            /\ j < k => molecule.unique[j].pos < molecule.unique[k].pos
       /\ \A j \in 1..Len(molecule.unique) :
            molecule.unique[j].pos = FirstAt(UniqueIndex(j))

\* C28: edgesUnique was read from a graph with two edges between the same
\* two nodes, whose traversal has four entries
C28_ParallelEdges ==
    /\ pc = "returned" /\ molecule.read = "edgesUnique"
    /\ molecule.connected = 2 /\ molecule.created > 0
    /\ molecule.m.conn[1].a # molecule.m.conn[1].b
    /\ {molecule.m.conn[1].a, molecule.m.conn[1].b}
         = {molecule.m.conn[2].a, molecule.m.conn[2].b}
    /\ Len(molecule.edges) = 4
    /\ Len(molecule.unique) = 2


\* graph m with every edge taken off its nodes and put on node 0
Detached(m) ==
    [m EXCEPT !.conn = [i \in 1..Len(m.conn) |-> [m.conn[i] EXCEPT !.a = 0, !.b = 0]]]

Written == [spin |-> lat.w.spin, flux |-> lat.w.flux]

\* C30: a value written for the site (x, y, z) by setSpin, setFlux,
\* setLocalM or lattice[...] = ... in one form, by index a = x + width * (y +
\* height * z) or by coordinates, positional or by keyword, is the value
\* getSpin, getFlux, getLocalM and lattice[...] read in either form, and no
\* other site is changed; each call reaches the engine function of its form.
C30_FormsAddressTheSameSite ==
    /\ (pc \in {"written", "returned"} /\ lat.w.fn # "none")
       => /\ lat.w.exc = "none"
          /\ lat.w.via = IF lat.w.form = "a" THEN "i" ELSE "v"
          /\ lat.w.a = lat.w.xyz[1] + lat.dim[1] * (lat.w.xyz[2] + lat.dim[2] * lat.w.xyz[3])
          /\ lat.site[lat.w.a] = Written
          /\ \A b \in DOMAIN lat.site : b # lat.w.a => lat.site[b] = SiteDefault
    /\ (pc = "returned" /\ lat.r.fn # "none")
       => /\ lat.r.exc = "none"
          /\ lat.r.via = IF lat.r.form = "a" THEN "i" ELSE "v"
          /\ lat.r.ret = CASE lat.r.fn = "getSpin" -> Written.spin
                           [] lat.r.fn = "getFlux" -> Written.flux
                           [] lat.r.fn = "getLocalM" -> Written.spin + Written.flux
                           [] lat.r.fn = "[]" -> <<Written.spin, Written.flux>>

\* C30: a spin written by setSpin(a, v) at the last site of a lattice of
\* depth 2 was read by getSpin(x, y, z)
C30_WrittenByIndexReadByCoordinates ==
    /\ pc = "returned"
    /\ lat.w.fn = "setSpin" /\ lat.w.form = "a" /\ lat.w.shape = "positional"
    /\ lat.dim = <<MaxDim, MaxDim, 2>>
    /\ lat.w.xyz = <<MaxDim - 1, MaxDim - 1, 1>>
    /\ lat.r.fn = "getSpin" /\ lat.r.form = "xyz"
    /\ lat.r.ret = MaxVal


\* the calls that write through an object the caller holds
HolderWrites == {"p.k = v", "setNodeParamters"}

\* C31: the lattice's Parameters and embedded MoleculeGraph are never aliased
\* by what a caller holds: a write to a Parameters record obtained from
\* getParameters, or to a graph obtained from getMolProto or handed to
\* setMolProto before, leaves the lattice as it was; setParameters and
\* setMolProto install the value held at the time of the call; and the
\* objects held are not changed by a setter of the lattice.
C31_NoAliasing ==
    [][/\ held'.op \in HolderWrites => msd' = msd
       /\ held'.op = "setParameters"
            => (getParameters(msd') = held.p.v /\ held'.p = held.p)
       /\ held'.op = "setMolProto"
            => (getMolProto(msd') = held.g.v /\ held'.g.v = held.g.v)
       /\ held'.op \in {"set kT", "set B", "setParameters", "setMolProto"}
            => (held'.p = held.p /\ held'.g.v = held.g.v)]_vars

\* C31: a graph that was handed to setMolProto has been written to since and
\* differs from the embedded one, and so does the record held
C31_StaleGraphWritten ==
    /\ pc = "held" /\ held.op = "setNodeParamters"
    /\ held.g.passed /\ held.g.v # getMolProto(msd)
    /\ held.p.has /\ held.p.v # getParameters(msd)


\* the step is a SET whose body, an object with keys among kT and B, was
\* applied
FastPathSet ==
    /\ pc = "set_body" /\ pc' = "command"
    /\ line'.t = "obj" /\ line'.keys \subseteq {"kT", "B"}

\* C32: a SET whose keys are a subset of {kT, B} leaves the lattice in the
\* state (parameters, molecule, seed, sites) in which reading the full
\* Parameters, overlaying the keys of the body and writing the record back
\* once leaves it.
C32_FastPathIsMerge ==
    [][FastPathSet
       => msd' = setParametersE(msd, Overlay(getParameters(msd), line'.keys,
                                             readJSON(line').kw.val))]_vars

\* C32: temperature and field were set in one body on a randomized lattice
\* that has another coefficient off its default
C32_BothSetOnChangedLattice ==
    /\ at = "set_body" /\ pc = "command" /\ line.keys = {"kT", "B"}
    /\ msd.p.kT = line.val["kT"] /\ msd.p.B = line.val["B"]
    /\ msd.p.SL # ParamDefault.SL /\ msd.sites = "rand"


\* the last line read is the body of a command and is malformed: a RUN body
\* that is no JSON object or has no step count, a SET or RESET body that is
\* no JSON object, a GET selector that is no JSON
MalformedBody ==
    \/ at = "run_body" /\ (line.t \in {"text", "list"}
                           \/ (line.t = "obj" /\ "simCount" \notin line.keys))
    \/ at \in {"set_body", "reset_body"} /\ line.t \in {"text", "list"}
    \/ at = "get_sel" /\ line.t = "text"

ResetDone == at = "reset_body" /\ pc = "command"

\* C36: every RESET makes exactly one call of randomize or reinitialize:
\* randomize if the randomize flag of the body is true, reinitialize
\* otherwise; for a body without a seed the reseed argument of the call is
\* the reseed flag of the body, true when the body has none, so a RESET with
\* an empty body reinitializes and reseeds.
C36_ResetCallsOne ==
    ResetDone
    => (/\ Len(msd.calls) = 1
        /\ msd.calls[1].fn = (IF "randomize" \in line.keys /\ line.val["randomize"] # 0
                              THEN "randomize" ELSE "reinitialize")
        /\ "seed" \notin line.keys
             => msd.calls[1].reseed = (IF "reseed" \in line.keys
                                       THEN line.val["reseed"] # 0 ELSE TRUE))

\* C36: a RESET with an empty body was carried out
C36_EmptyBodyReinitializes ==
    /\ ResetDone /\ line.keys = {}
    /\ msd.calls = <<[fn |-> "reinitialize", reseed |-> TRUE]>>
    /\ msd.sites = "init"


\* the call gives molPos and a boundary of the molecule that differs from it
MolPosContradicted ==
    /\ "molPos" \in ctor.a.has
    /\ \E k \in {"molPosL", "molPosR"} \cap ctor.a.has : ctor.a.v[k] # ctor.a.v["molPos"]

\* C37: a call that gives molPos together with a molPosL or a molPosR that
\* differs from it raises and creates no lattice, for either boundary; a
\* call that gives molPos and returns a lattice has both boundaries at
\* molPos.
C37_MolPosConflictFails ==
    (pc = "returned" /\ ctor.called /\ "molPos" \in ctor.a.has)
    => IF MolPosContradicted THEN ctor.g.raised /\ ~msd.live
       ELSE ~ctor.g.raised
            => (/\ ctor.g.v["molPosL"] = ctor.a.v["molPos"]
                /\ ctor.g.v["molPosR"] = ctor.a.v["molPos"])


\* C38: every lattice constructed has its resolved boundaries inside the
\* grid and in order, on each axis-pair: 0 <= left <= right <= extent - 1,
\* whatever lengths and boundaries the call gave.
C38_BoundsInsideGrid ==
    Constructed
    => \A x \in AxisPairs :
         /\ 0 <= ctor.g.v[x[2]]
         /\ ctor.g.v[x[2]] <= ctor.g.v[x[3]]
         /\ ctor.g.v[x[3]] <= ctor.g.v[x[4]] - 1


\* the metaIndex of the cursors a traversal yielded, in order
YieldedMeta == [k \in 1..Len(cur.yielded) |-> cur.yielded[k].i]

\* L - 1, L - 2, ..., 0
Descending(L) == [k \in 1..L |-> L - k]

\* a backward traversal is over
ReversedOver == pc = "returned" /\ cur.op \in {"for reversed", "next reversed"}

\* C39: a backward traversal of a collection of L elements, reversed(collection),
\* yields L cursors of metaIndex L-1, L-2, ..., 0 in that order and then
\* signals exhaustion with the cursor at begin
C39_ReversedYieldsAll ==
    ReversedOver
    => /\ cur.exc = "StopIteration"
       /\ YieldedMeta = Descending(cur.L)
       /\ \A k \in 1..Len(cur.yielded) : cur.yielded[k].pos = cur.yielded[k].i
       /\ eq_n(cur.c.pos, createBeginNodeIter(cur.L))


\* the cursors a walk holds: the one it calls on and the one it kept
WalkCursors == {cur.c} \cup (IF cur.snap = PyNone THEN {} ELSE {cur.snap})

\* C40: after any sequence of successful or failed next, prev, +=, -=, +, -
\* and clone calls, every cursor held, the ones next, prev and clone returned
\* included, has 0 <= metaIndex <= L and a metaIndex equal to the distance of
\* its position from begin, and a cursor returned earlier is as it was when
\* it was returned
C40_CursorInvariant ==
    pc = "walk"
    => /\ \A x \in WalkCursors :
            /\ 0 <= x.i /\ x.i <= cur.L
            /\ x.i = cur.heap[x.node] - cur.heap[1]
       /\ cur.heap[1] = createBeginNodeIter(cur.L)
       /\ cur.snap # PyNone => ValueOf(cur.heap, cur.snap) = cur.snapWas

\* C40 witness: a cursor returned at begin is kept while the cursor it came
\* from has gone on to the end of the longest collection, a call having
\* failed on the way
C40_SnapshotOutlived ==
    /\ pc = "walk" /\ cur.L = MaxSize /\ cur.failed
    /\ cur.snap # PyNone /\ cur.snapWas.i = 0
    /\ cur.c.i = cur.L
    /\ cur.op \in {"next", "+="}

====
